---- MODULE Spec2Model ----
(***************************************************************************)
(* State-machine model of pymoku's frame streaming engine                  *)
(* (src/pymoku/_frame_instrument.py): FrameQueue, InstrumentData.add_packet*)
(* the frame worker thread and get_realtime_data, with the instrument's    *)
(* state id driven by commit.                                              *)
(***************************************************************************)
EXTENDS Integers, Sequences, FiniteSets, TLC

(***************************************************************************)
(* Bounds of the model.                                                    *)
(***************************************************************************)
\* frame objects the worker may create in one run of the model
MaxFrames == 3
\* commits in one run of the model
MaxCommits == 1
\* largest buffer length handed to _set_buffer_length
MaxBuflen == 2
\* threads calling FrameQueue.get concurrently (specification SpecQueue)
MaxGetters == 2
\* payload bytes carried by a full-length packet
MaxPayload == 2
\* ticks of the clock in one run of the timed specification
MaxTime == 4
\* get_data calls in one run of the model
MaxDataCalls == 1
\* calls of the waveform generator's methods in one run of the model
MaxGenCalls == 2

(***************************************************************************)
(* Program constants.                                                      *)
(***************************************************************************)
\* Python's None, for attributes that hold no value yet
NoneVal == -1
\* hdr_len in add_packet
hdr_len == 15
\* the trailing bytes add_packet trims off: packet[hdr_len:-8]
FooterLen == 8
\* FrameBasedInstrument.__init__: self._buflen = 1
DefaultBuflen == 1
\* sys.maxsize seconds: the "exceedingly long" timeout of get_realtime_data
Forever == 1000000

(***************************************************************************)
(* Bytes and packets.  A packet is a sequence of bytes (0..255); positions *)
(* are 1-based here, so byte offset k of the wire format is p[k + 1].      *)
(***************************************************************************)
Min(a, b) == IF a < b THEN a ELSE b

Max(a, b) == IF a > b THEN a ELSE b

\* Python slice s[lo:hi] for 0 <= lo and any integer hi (negative counts from the end)
Slice(s, lo, hi) ==
    LET h == IF hi < 0 THEN Max(Len(s) + hi, 0) ELSE Min(hi, Len(s))
    IN  IF h <= lo THEN <<>> ELSE SubSeq(s, lo + 1, h)

\* struct.unpack little-endian unsigned integer of the bytes s
RECURSIVE LeUnsigned(_)
LeUnsigned(s) == IF s = <<>> THEN 0 ELSE s[1] + 256 * LeUnsigned(Tail(s))

\* little-endian encoding of v in n bytes (what the device puts on the wire)
RECURSIVE LeBytes(_, _)
LeBytes(v, n) == IF n = 0 THEN <<>> ELSE <<v % 256>> \o LeBytes(v \div 256, n - 1)

\* mutant: the header is unpacked big-endian ('>BHBBBBBIBH')
UnpackHeaderBE(h) ==
    << h[1], 256 * h[2] + h[3], h[4], h[5], h[6], h[7], h[8],
       16777216 * h[9] + 65536 * h[10] + 256 * h[11] + h[12], h[13],
       256 * h[14] + h[15] >>

\* struct.unpack('<BHBBBBBIBH', packet[:hdr_len]): the tuple data[0..9], 1-based here
UnpackHeader(h) ==
    << h[1], LeUnsigned(SubSeq(h, 2, 3)), h[4], h[5], h[6], h[7], h[8],
       LeUnsigned(SubSeq(h, 9, 12)), h[13], LeUnsigned(SubSeq(h, 14, 15)) >>

(***************************************************************************)
(* InstrumentData: one frame accumulator.  oid is the identity of the      *)
(* Python object (the worker creates the objects one after another).       *)
(***************************************************************************)
NewFrame(oid) ==
    [ oid |-> oid, complete |-> FALSE, chs_valid |-> <<FALSE, FALSE>>,
      raw1 |-> <<>>, raw2 |-> <<>>, stateid |-> NoneVal, trigstate |-> NoneVal,
      frameid |-> 0, waveformid |-> 0, flags |-> NoneVal, source_serial |-> NoneVal ]

\* add_packet lines 100-109: the header's metadata is stored in the accumulator
store_header(fr, data) ==
    [fr EXCEPT !.stateid = data[5], !.trigstate = data[6], !.flags = data[7],
               !.waveformid = data[8], !.source_serial = data[9]]

\* mutant: the new frame id is adopted but the valid flags are left as they were
adopt_no_reset(fr, frameid) == [fr EXCEPT !.frameid = frameid]

\* add_packet lines 111-113: a new frame id is adopted and both valid flags reset
adopt_frameid(fr, frameid) ==
    IF fr.frameid # frameid
    THEN [fr EXCEPT !.frameid = frameid, !.chs_valid = <<FALSE, FALSE>>]
    ELSE fr

\* add_packet lines 119-124: channel 0 fills slot 1, any other channel slot 2
store_channel(fr, chan, payload) ==
    IF chan = 0
    THEN [fr EXCEPT !.chs_valid[1] = TRUE, !.raw1 = payload]
    ELSE [fr EXCEPT !.chs_valid[2] = TRUE, !.raw2 = payload]

\* mutant: any() for all(): one valid channel makes the frame complete
finish_frame_any(fr, hook) ==
    LET done == fr.chs_valid[1] \/ fr.chs_valid[2]
    IN  IF done /\ ~hook
        THEN [fr EXCEPT !.complete = FALSE, !.chs_valid = <<FALSE, FALSE>>]
        ELSE [fr EXCEPT !.complete = done]

\* mutant: a veto clears _complete only, the valid flags stay set
finish_frame_keep(fr, hook) ==
    LET done == fr.chs_valid[1] /\ fr.chs_valid[2]
    IN  [fr EXCEPT !.complete = done /\ hook]

\* add_packet lines 126-131: completeness, and the veto of process_complete()
finish_frame(fr, hook) ==
    LET done == fr.chs_valid[1] /\ fr.chs_valid[2]
    IN  IF done /\ ~hook
        THEN [fr EXCEPT !.complete = FALSE, !.chs_valid = <<FALSE, FALSE>>]
        ELSE [fr EXCEPT !.complete = done]

\* add_packet past its length check (lines 100-131)
merge_packet(fr, packet, hook) ==
    LET data    == UnpackHeader(Slice(packet, 0, hdr_len))
        frameid == data[2]
        chan    == (data[4] \div 16) % 16
    IN  finish_frame(
            store_channel(adopt_frameid(store_header(fr, data), frameid),
                          chan, Slice(packet, hdr_len, 0 - FooterLen)),
            hook)

\* mutant: a corrupt packet also invalidates what was accumulated
add_packet_invalidate(fr, packet, hook) ==
    IF Len(packet) <= hdr_len
    THEN [fr EXCEPT !.chs_valid = <<FALSE, FALSE>>]
    ELSE merge_packet(fr, packet, hook)

\* InstrumentData.add_packet; hook is the result of self.process_complete()
add_packet(fr, packet, hook) ==
    IF Len(packet) <= hdr_len THEN fr ELSE merge_packet(fr, packet, hook)

(***************************************************************************)
(* FrameQueue: queue.Queue over deque(maxlen=maxsize).                     *)
(***************************************************************************)
\* mutant: the deque is not bounded (the stock Queue._init)
DequeUnbounded(q, maxlen, item) == Append(q, item)

\* FrameQueue._put on the bounded deque: deque.append drops the oldest when full
DequeAppend(q, maxlen, item) ==
    IF maxlen = 0 THEN <<>>
    ELSE IF Len(q) >= maxlen THEN Append(Tail(q), item)
    ELSE Append(q, item)

\* FrameQueue.put with timeout=None waits on not_full while this holds
PutWaits(q, maxsize, block) == maxsize > 0 /\ block /\ Len(q) = maxsize

\* FrameQueue.put once it is past the wait: self._put(item)
FrameQueuePut(q, maxsize, item) == DequeAppend(q, maxsize, item)

\* mutant: the worker calls put(item), which blocks by default
PutBlocking(q, maxsize) == PutWaits(q, maxsize, TRUE)

\* Queue.put_nowait(item) is self.put(item, block=False): it never waits
PutNowaitWaits(q, maxsize) == PutWaits(q, maxsize, FALSE)

\* mutant: the newest frame is taken (pop() for popleft())
QueuePopRight(q) == << q[Len(q)], SubSeq(q, 1, Len(q) - 1) >>

\* mutant: the frame is read but left in the deque
QueuePeek(q) == << Head(q), q >>

\* Queue.get under the mutex: <<the item popleft() returns, what is left>>
QueuePop(q) == << Head(q), Tail(q) >>

(***************************************************************************)
(* The packets the device sends: the wire format of the realtime feed.     *)
(***************************************************************************)
\* sample bytes of channel chan in frame frameid: they tell their packet apart
PayloadOf(frameid, chan) == [i \in 1..MaxPayload |-> (frameid + 16 * chan + i) % 256]

\* a whole packet: 15-byte header, payload, 8-byte footer
MkPacket(frameid, chan, stateid, trigstate) ==
    <<1>> \o LeBytes(frameid, 2) \o <<7, chan * 16 + 5, stateid, trigstate, 3>>
          \o LeBytes(16909060 + frameid, 4) \o <<9, 0, 0>>
          \o PayloadOf(frameid, chan) \o [i \in 1..FooterLen |-> 240 + i]

\* the first n bytes of a packet: a datagram cut short
Truncate(p, n) == SubSeq(p, 1, Min(n, Len(p)))

FullLen == hdr_len + MaxPayload + FooterLen

\* frame ids on the wire (258 = 0x0102 uses both bytes of the 16-bit field)
FrameIds == {0, 258}

\* state ids the device can stamp: one per commit so far
StateIds == 0..MaxCommits

\* well-formed packets of the two channels of one frame id, stamped with any
\* of the state ids
StreamPackets == { MkPacket(258, c, t, t) : c \in {0, 1}, t \in StateIds }

\* packets of a device stamping the state id t it has been sent
CurrentPackets(t) == { MkPacket(258, c, t, t) : c \in {0, 1} }

\* the same with one state id only
QueuePackets == { MkPacket(258, c, 0, 0) : c \in {0, 1} }

\* lengths around the header and footer boundaries
AsmLens ==
    {0, hdr_len - 1, hdr_len, hdr_len + 1, hdr_len + FooterLen - 1,
     hdr_len + FooterLen, FullLen}

\* whole and truncated packets, also of a channel index above 1
AsmPackets ==
    { Truncate(MkPacket(f, c, 1, 0), n) : f \in FrameIds, c \in {0, 1, 2}, n \in AsmLens }

\* the header fields by the wire layout (offset 1-2 frame id, offset 4 bits 4-7 channel)
PktFrameId(p) == p[2] + 256 * p[3]

PktChan(p) == p[5] \div 16

(***************************************************************************)
(* State.                                                                  *)
(***************************************************************************)
VARIABLES
    queue,      \* self._queue.queue: the deque of frames, oldest first
    buflen,     \* self._buflen = the queue's maxsize
    running,    \* self._running
    stateid,    \* self._stateid of the instrument
    joining,    \* the caller is inside self._fr_worker.join()
    wpc,        \* the frame worker: "none", "loop", "select", "put", "done"
    fr,         \* the worker's accumulator (local fr of _frame_worker)
    noid,       \* frame objects created so far
    g_rx,       \* history: the packet the worker received in its last step
    g_src,      \* history: per slot of fr, the frame id of the packet stored in it
    g_start,    \* history: the frame objects there were when acquisition last started
    cpc,        \* per consumer thread: "idle", "get", "check", and how its last
                \* call ended: "returned" (a frame), "nothing" (None), "timeout"
    cargs,      \* per consumer: the arguments of its get_realtime_data call
    cframe,     \* per consumer: the frame its queue.get returned
    g_puts,     \* history: oids inserted into the current queue object
    g_pops,     \* history: <<consumer, oid>> in the order the queue handed them out
    g_evicted,  \* history: oids that were the oldest entry when a put found the queue full
    g_ret,      \* history: what get_realtime_data returned, in order
    now,        \* time.time(), in ticks
    ctime,      \* per consumer: the times of its get_realtime_data call
    deployed,   \* self._moku is not None
    dirty,      \* check_uncommitted_state(): settings are staged and not committed
    paused,     \* get_pause(): the device's acquisition is paused
    dlopen,     \* a buffered-download (logging) session of the stream handler is open
    gd,         \* the caller's get_data call: position and locals
    wg,         \* the waveform generator object: its staged attributes and its last call
    rg,         \* a register pair under a field handler: input, registers, value read back
    scales,     \* BodeAnalyser.scales: the state ids that scaling data is recorded for
    g_ev        \* history: the commits made, and what the current get_data call did
                \* to stream and pause (it starts the history anew), in order

vars == << queue, buflen, running, stateid, joining, wpc, fr, noid, g_rx, g_src, g_start,
           cpc, cargs, cframe, g_puts, g_pops, g_evicted, g_ret, now, ctime,
           deployed, dirty, paused, dlopen, gd, g_ev, wg, rg, scales >>

ctlvars == << buflen, running, stateid, joining >>

wrkvars == << wpc, fr, noid, g_rx, g_src, g_start >>

convars == << cpc, cargs, cframe, g_pops, g_ret >>

\* the clock and what is derived from it
timevars == << now, ctime >>

\* the buffered download and the device state it depends on
datavars == << deployed, dirty, paused, dlopen, gd, g_ev, wg, rg, scales >>

\* the consumer threads: the domain Init gives cpc
Consumers == DOMAIN cpc

\* the caller's thread of control
Callers == {1}

\* several threads reading the queue at once
Getters == 1..MaxGetters

NoArgs == [wait |-> FALSE, timeout |-> NoneVal]

\* no call was timed yet
NoTime == [start |-> 0, endtime |-> 0, getdl |-> 0, timeout |-> NoneVal, wait |-> FALSE,
           streaming |-> FALSE, pops |-> 0, done |-> 0]

\* get_realtime_data returned None
NoFrame == [waveformid |-> NoneVal, stateid |-> NoneVal, trigstate |-> NoneVal]

\* no get_data call was made yet
NoData == [pc |-> "idle", calls |-> 0, was_paused |-> FALSE, pre_paused |-> FALSE,
           frame |-> NoFrame, buff |-> NoFrame]

\* positions of a thread that is not inside get_realtime_data
CallDone == {"idle", "returned", "nothing", "timeout"}

\* no packet was received in the worker's last step
NoRx == [on |-> FALSE, pkt |-> <<>>, hook |-> TRUE, pre |-> NewFrame(0)]

\* nothing is stored in either slot
NoSrc == <<NoneVal, NoneVal>>

\* the output channels of the waveform generator
Channels == {1, 2}

\* mod1_amplitude before anything was staged: depth_parameter as a fraction, and the
\* calibration gain it was multiplied by
NoModAmp == [num |-> 0, den |-> "1", gain |-> "unity"]

\* the attributes out<ch>_* and mod<ch>_* of one channel before anything was staged.
\* Voltages are in quarter volts, frequencies and rates in Hz, phases in degrees,
\* times in tenths of a cycle.
NoChannel == [enable |-> FALSE, waveform |-> 0, amplitude |-> 0, frequency |-> 0,
              offset |-> 0, phase |-> 0, clipsine |-> FALSE, t0 |-> 0, t1 |-> 0, t2 |-> 0,
              riserate |-> 0, fallrate |-> 0, modulation |-> 0, modsource |-> 0,
              mod_frequency |-> 0, mod_amplitude |-> NoModAmp]

\* no generator call was made yet
NoCall == [op |-> "none", raised |-> FALSE]

\* WaveformGenerator.__init__ : nothing staged, nothing written to the device
NoGen == [attr |-> [ch \in Channels |-> NoChannel], pre |-> [ch \in Channels |-> NoChannel],
          dev |-> [ch \in Channels |-> NoChannel], predev |-> [ch \in Channels |-> NoChannel],
          call |-> NoCall, n |-> 0]

\* the instrument is not a waveform generator
Unbuilt == [op |-> "none"]

\* no field handler was applied yet
NoReg == [pc |-> "none"]

\* FrameBasedInstrument.__init__ : an empty queue of length 1, nothing running;
\* threads are the consumer threads there are
InitWith(threads) ==
    /\ queue = <<>>
    /\ buflen = DefaultBuflen
    /\ running = FALSE
    /\ stateid = 0
    /\ joining = FALSE
    /\ wpc = "none"
    /\ fr = NewFrame(0)
    /\ noid = 0
    /\ g_rx = NoRx
    /\ g_src = NoSrc
    /\ g_start = 0
    /\ cpc = [c \in threads |-> "idle"]
    /\ cargs = [c \in threads |-> NoArgs]
    /\ cframe = [c \in threads |-> NewFrame(0)]
    /\ g_puts = <<>>
    /\ g_pops = <<>>
    /\ g_evicted = {}
    /\ g_ret = <<>>
    /\ now = 0
    /\ ctime = [c \in threads |-> NoTime]
    /\ dirty = FALSE
    /\ paused = FALSE
    /\ dlopen = FALSE
    /\ gd = NoData
    /\ g_ev = <<>>
    /\ scales = {}

\* the instrument is attached to its device
Init == InitWith(Callers) /\ deployed = TRUE /\ wg = Unbuilt /\ rg = NoReg

InitQueue == InitWith(Getters) /\ deployed = TRUE /\ wg = Unbuilt /\ rg = NoReg

\* the instrument was constructed; it may or may not be attached to a device yet
InitData == InitWith(Callers) /\ deployed \in BOOLEAN /\ wg = Unbuilt /\ rg = NoReg

(***************************************************************************)
(* The caller's thread: configuration and start/stop.                      *)
(***************************************************************************)
\* _set_buffer_length(buflen): a new, empty FrameQueue replaces the old one.
\* The caller sets the length up before acquisition is first started.
SetBufferLength(n) ==
    /\ ~joining
    /\ noid = 0
    /\ \A c \in Consumers : cpc[c] \in CallDone
    /\ buflen' = n
    /\ queue' = <<>>
    /\ g_puts' = <<>>
    /\ g_pops' = <<>>
    /\ g_evicted' = {}
    /\ UNCHANGED << running, stateid, joining, wrkvars, cpc, cargs, cframe, g_ret, timevars, datavars >>

\* mutant: the clear leaves the newest frame behind
FlushLeavesNewest(q) == IF q = <<>> THEN q ELSE << q[Len(q)] >>

\* self._queue.queue.clear()
FlushedQueue(q) == <<>>

\* _flush(): the deque is cleared while the queue's mutex is held (line 159); put
\* (not_full is a condition on that mutex, lines 25-44) and get run under the same
\* mutex, so the clear falls before or after each of them.  The histories of the
\* queue start anew.
Flush ==
    /\ ~joining
    /\ queue' = FlushedQueue(queue)
    /\ g_puts' = <<>>
    /\ g_pops' = <<>>
    /\ g_evicted' = {}
    /\ UNCHANGED << ctlvars, wrkvars, cpc, cargs, cframe, g_ret, timevars, datavars >>

\* positions of the worker inside "while self._running" (lines 323-330)
WorkerLoop == {"loop", "select", "put"}

\* positions of a worker thread that has ended: "done" with its socket closed,
\* "leak" without skt.close() having run
WorkerExited == {"done", "leak"}

\* mutant: stop returns without waiting for the worker
StopNoJoin(state, prev_state) == FALSE

\* lines 307-308: elif not state and prev_state: self._fr_worker.join()
StopJoins(state, prev_state) == ~state /\ prev_state

\* _set_running(state): the worker is spawned on False -> True and joined on
\* True -> False; the new thread sets up its socket and its first accumulator
SetRunning(state) ==
    /\ ~joining
    /\ state /\ ~running => noid < MaxFrames
    /\ running' = state
    /\ IF state /\ ~running
       THEN /\ wpc' = "loop"
            /\ noid' = noid + 1
            /\ fr' = NewFrame(noid + 1)
            /\ g_rx' = NoRx
            /\ g_src' = NoSrc
            /\ UNCHANGED joining
       ELSE /\ joining' = StopJoins(state, running)
            /\ UNCHANGED wrkvars
    /\ UNCHANGED << queue, buflen, stateid, convars, g_puts, g_evicted, timevars, datavars >>

\* the history of a _set_running(state) step (rec: the specification keeps
\* the mark of where the session began): the frame objects made before it
SessionMark(state, rec) ==
    g_start' = IF rec /\ state /\ ~running THEN noid ELSE g_start

\* self._fr_worker.join() returns once the worker has exited
JoinReturn ==
    /\ joining
    /\ wpc \in WorkerExited
    /\ joining' = FALSE
    /\ UNCHANGED << queue, buflen, running, stateid, wrkvars, convars, g_puts, g_evicted,
                 timevars, datavars >>

\* mutant: a commit with nothing staged is skipped
CommitStateIdIfStaged(sid, staged) == IF staged THEN sid + 1 ELSE sid

\* the state id a commit call leaves behind, staged or not
CommitStateId(sid, staged) == sid + 1

\* what a commit call adds to the event history
CommitEvent(staged) == IF staged THEN "commit" ELSE "commit_clean"

\* MokuInstrument.commit: the staged settings are written out and the state id
\* goes up by one
Commit ==
    /\ ~joining
    /\ stateid < MaxCommits
    /\ stateid' = CommitStateId(stateid, dirty)
    /\ dirty' = FALSE
    /\ g_ev' = Append(g_ev, CommitEvent(dirty))
    /\ UNCHANGED << queue, buflen, running, joining, wrkvars, convars, g_puts, g_evicted,
                 timevars,
                 wg, rg, deployed, scales, paused, dlopen, gd >>

(***************************************************************************)
(* The frame worker thread (_frame_worker).                                *)
(***************************************************************************)
\* mutant: skt.close() follows the loop without try/finally
WorkerExitNoFinally(raised) == IF raised THEN "leak" ELSE "done"

\* lines 322-332: the loop is left, normally or by an exception; finally: skt.close()
WorkerExit(raised) == "done"

\* while self._running: ... finally: skt.close()
WorkerCheck ==
    /\ wpc = "loop"
    /\ wpc' = IF running THEN "select" ELSE WorkerExit(FALSE)
    /\ g_rx' = NoRx
    /\ UNCHANGED << g_start, queue, ctlvars, fr, noid, g_src, convars, g_puts, g_evicted, timevars, datavars >>

\* zmq.select timed out after 1.0 s with nothing to read
WorkerIdle ==
    /\ wpc = "select"
    /\ wpc' = "loop"
    /\ UNCHANGED << g_start, queue, ctlvars, fr, noid, g_rx, g_src, convars, g_puts, g_evicted, timevars, datavars >>

\* d = skt.recv(); fr.add_packet(d); if fr._complete: go on to the put.
\* hooks are the results process_complete() of the frame class can give
\* (rec: the specification keeps the history of the packets).
WorkerRecv(packets, hooks, rec) ==
    /\ wpc = "select"
    /\ fr.oid <= MaxFrames
    /\ \E p \in packets, hook \in hooks :
         /\ fr' = add_packet(fr, p, hook)
         /\ g_rx' = IF rec THEN [on |-> TRUE, pkt |-> p, hook |-> hook, pre |-> fr]
                     ELSE NoRx
         /\ g_src' = IF rec /\ Len(p) > hdr_len
                      THEN [g_src EXCEPT ![IF PktChan(p) = 0 THEN 1 ELSE 2] = PktFrameId(p)]
                      ELSE g_src
    /\ wpc' = IF fr'.complete THEN "put" ELSE "loop"
    /\ UNCHANGED << g_start, queue, ctlvars, noid, convars, g_puts, g_evicted, timevars, datavars >>

\* lines 324-326 raise: zmq.select or skt.recv fails (transport is TRUE), or
\* process_complete() of the frame class raises inside add_packet, which has
\* set _complete by then.  The loop has no except clause: the exception leaves
\* the thread through the finally.
WorkerRaise(packets) ==
    /\ wpc = "select"
    /\ fr.oid <= MaxFrames
    /\ \E transport \in BOOLEAN :
         IF transport
         THEN fr' = fr
         ELSE \E p \in packets :
                 /\ add_packet(fr, p, TRUE).complete
                 /\ fr' = add_packet(fr, p, TRUE)
    /\ wpc' = WorkerExit(TRUE)
    /\ g_rx' = NoRx
    /\ UNCHANGED << g_start, queue, ctlvars, noid, g_src, convars, g_puts, g_evicted, timevars, datavars >>

\* _set_running(True) whose new thread fails in its set-up, lines 313-320: the
\* socket exists from line 314, connect (315) or the frame class constructor
\* (320) raises, and these lines are outside the try.  skt.close() is not
\* run; closed says whether the interpreter's finaliser closed the socket.
SpawnFailing(closed) ==
    /\ ~joining
    /\ ~running
    /\ running' = TRUE
    /\ wpc' = IF closed THEN "done" ELSE "leak"
    /\ g_rx' = NoRx
    /\ g_src' = NoSrc
    /\ UNCHANGED << g_start, queue, buflen, stateid, joining, fr, noid, convars, g_puts, g_evicted,
                    timevars, datavars >>

\* mutant: the accumulator that was enqueued is filled again
KeepAccumulator(old, oid) == old

\* line 330: fr = self._frame_class(**self._frame_kwargs)
FreshAccumulator(old, oid) == NewFrame(oid)

\* self._queue.put_nowait(fr); fr = self._frame_class(...)
\* (rec: the specification keeps the queue's history)
WorkerPut(rec) ==
    /\ wpc = "put"
    /\ ~PutNowaitWaits(queue, buflen)
    /\ queue' = FrameQueuePut(queue, buflen, fr)
    /\ g_puts' = IF rec THEN Append(g_puts, fr.oid) ELSE g_puts
    /\ g_evicted' = IF rec /\ Len(queue) = buflen
                    THEN g_evicted \cup {queue[1].oid} ELSE g_evicted
    /\ noid' = noid + 1
    /\ fr' = FreshAccumulator(fr, noid + 1)
    /\ g_src' = NoSrc
    /\ wpc' = "loop"
    /\ UNCHANGED << g_start, ctlvars, g_rx, convars, timevars, datavars >>

(***************************************************************************)
(* Consumer threads: get_realtime_data(timeout, wait).  These actions say  *)
(* nothing about the clock: a specification either leaves it alone or      *)
(* joins them with the timing of the call (the Timed actions below).       *)
(***************************************************************************)
\* the timeouts a caller passes: None, or a positive number of seconds
Timeouts == {NoneVal, 1}

\* mutant: the first frame is handed back whatever its trigger state
FrameAcceptedAny(wait, frame, sid) == TRUE

\* mutant: the state test is applied whether or not the caller waits
FrameAcceptedStrict(wait, frame, sid) == frame.trigstate = sid

\* mutant: the frame is compared with the state id the next commit will give
FrameAcceptedNextState(wait, frame, sid) == ~wait \/ frame.trigstate = sid + 1

\* line 292: the frame is handed back
FrameAccepted(wait, frame, sid) == ~wait \/ frame.trigstate = sid

\* while self._running: the thread goes on into self._queue.get(...), or falls
\* out of the loop (get_realtime_data then returns None)
LoopTest(c, args) ==
    IF running
    THEN /\ cpc' = [cpc EXCEPT ![c] = "get"]
         /\ cargs' = [cargs EXCEPT ![c] = args]
    ELSE /\ cpc' = [cpc EXCEPT ![c] = "nothing"]
         /\ cargs' = [cargs EXCEPT ![c] = NoArgs]

\* the call begins: endtime is set and the loop condition tested
GetRealtimeCall(c, wait, timeout) ==
    /\ cpc[c] \in CallDone
    /\ LoopTest(c, [wait |-> wait, timeout |-> timeout])
    /\ UNCHANGED << queue, ctlvars, wrkvars, cframe, g_puts, g_pops, g_evicted, g_ret >>

\* FrameQueue.get hands out the oldest frame
\* (rec: the specification keeps the queue's history)
QueueGet(c, rec) ==
    /\ cpc[c] = "get"
    /\ queue # <<>>
    /\ cframe' = [cframe EXCEPT ![c] = QueuePop(queue)[1]]
    /\ queue' = QueuePop(queue)[2]
    /\ g_pops' = IF rec THEN Append(g_pops, <<c, cframe'[c].oid>>) ELSE g_pops
    /\ cpc' = [cpc EXCEPT ![c] = "check"]
    /\ UNCHANGED << ctlvars, wrkvars, cargs, g_puts, g_evicted, g_ret >>

\* mutant: the retry loop of FrameQueue.get swallows every Empty
GetNeverRaises(timeout) == FALSE

\* FrameQueue.get lines 52-55: Empty is retried when timeout is None, raised otherwise
GetRaisesEmpty(timeout) == timeout # NoneVal

\* FrameQueue.get raises Empty when a finite timeout runs out on an empty
\* queue; get_realtime_data turns it into FrameTimeout
QueueGetEmpty(c) ==
    /\ cpc[c] = "get"
    /\ queue = <<>>
    /\ GetRaisesEmpty(cargs[c].timeout)
    /\ cpc' = [cpc EXCEPT ![c] = "timeout"]
    /\ cargs' = [cargs EXCEPT ![c] = NoArgs]
    /\ UNCHANGED << queue, ctlvars, wrkvars, cframe, g_puts, g_pops, g_evicted, g_ret >>

\* lines 292-297: return the frame, or raise FrameTimeout past endtime, or loop
\* (rec: the specification keeps the history of the frames returned)
GetRealtimeCheck(c, rec) ==
    /\ cpc[c] = "check"
    /\ IF FrameAccepted(cargs[c].wait, cframe[c], stateid)
       THEN /\ g_ret' = IF rec
                        THEN Append(g_ret, [c |-> c, oid |-> cframe[c].oid,
                                            wait |-> cargs[c].wait,
                                            trigstate |-> cframe[c].trigstate,
                                            stateid |-> cframe[c].stateid,
                                            waveformid |-> cframe[c].waveformid,
                                            sid |-> stateid])
                        ELSE g_ret
            /\ cpc' = [cpc EXCEPT ![c] = "returned"]
            /\ cargs' = [cargs EXCEPT ![c] = NoArgs]
       ELSE /\ UNCHANGED g_ret
            /\ \/ /\ cargs[c].timeout # NoneVal
                  /\ cpc' = [cpc EXCEPT ![c] = "timeout"]
                  /\ cargs' = [cargs EXCEPT ![c] = NoArgs]
               \/ LoopTest(c, cargs[c])
    /\ cframe' = [cframe EXCEPT ![c] = NewFrame(0)]
    /\ UNCHANGED << queue, ctlvars, wrkvars, g_puts, g_pops, g_evicted >>

(***************************************************************************)
(* The timing of a get_realtime_data call.  The clock ticks only while no  *)
(* step of a consumer is due: a consumer's own steps take no time, so what *)
(* a call takes is the time it spends waiting in queue.get.  Time that     *)
(* passes between calls is not counted.                                    *)
(***************************************************************************)
\* the timeouts of the timed calls, in ticks
TimedTimeouts == {0, 1, 2}

\* FrameQueue.get line 50: Queue.get(self, block=block, timeout=timeout or 1)
GetWait(timeout) == IF timeout = NoneVal \/ timeout = 0 THEN 1 ELSE timeout

\* line 285: endtime = time.time() + (timeout or sys.maxsize)
EndTime(t, timeout) ==
    t + (IF timeout = NoneVal \/ timeout = 0 THEN Forever ELSE timeout)

\* line 294: elif time.time() > endtime
PastEndtime(t, endtime) == t > endtime

\* the thread has a step to take at this instant
Urgent(c) ==
    \/ cpc[c] = "check"
    \/ /\ cpc[c] = "get"
       /\ \/ queue # <<>>
          \/ GetRaisesEmpty(cargs[c].timeout) /\ now >= ctime[c].getdl

\* time passes (the clock is only looked at during a call)
Tick ==
    /\ now < MaxTime
    /\ \E c \in Consumers : cpc[c] \notin CallDone
    /\ \A c \in Consumers : ~Urgent(c)
    /\ now' = now + 1
    /\ UNCHANGED << queue, ctlvars, wrkvars, convars, g_puts, g_evicted, ctime, datavars >>

\* the call begins: endtime is set, and the first queue.get starts its wait
TimedCall(c, wait, timeout) ==
    /\ GetRealtimeCall(c, wait, timeout)
    /\ ctime' = [ctime EXCEPT ![c] =
                    [start |-> now, endtime |-> EndTime(now, timeout),
                     getdl |-> now + GetWait(timeout), timeout |-> timeout,
                     wait |-> wait, streaming |-> running, pops |-> 0, done |-> now]]
    /\ UNCHANGED << now, datavars >>

\* queue.get returns a frame
TimedGet(c) ==
    /\ QueueGet(c, FALSE)
    /\ ctime' = [ctime EXCEPT ![c].pops = @ + 1]
    /\ UNCHANGED << now, datavars >>

\* queue.get has waited its timeout on an empty queue
TimedGetEmpty(c) ==
    /\ now >= ctime[c].getdl
    /\ QueueGetEmpty(c)
    /\ ctime' = [ctime EXCEPT ![c].done = now]
    /\ UNCHANGED << now, datavars >>

\* lines 292-297 with the clock: FrameTimeout exactly when endtime has passed,
\* else the next queue.get starts its wait
TimedCheck(c) ==
    /\ GetRealtimeCheck(c, TRUE)
    /\ ~FrameAccepted(cargs[c].wait, cframe[c], stateid) =>
          (cpc'[c] = "timeout" <=> PastEndtime(now, ctime[c].endtime))
    /\ ctime' = [ctime EXCEPT ![c].getdl = now + GetWait(ctime[c].timeout),
                              ![c].done = now]
    /\ UNCHANGED << now, datavars >>

(***************************************************************************)
(* get_data(timeout, wait): the buffered download, on the caller's thread. *)
(* It blocks in get_realtime_data and in the download stream; what lies    *)
(* between two blocking points is one step.  set_pause, commit and the     *)
(* _stream_* methods belong to classes outside this source tree.           *)
(***************************************************************************)
\* positions of the caller when it is not inside get_data
GdDone == {"idle", "returned", "notdeployed", "uncommitted", "timeout", "nameerror", "error"}

\* a setter with a commit pending: set_pause(b) before its commit
SetPause(b) ==
    /\ gd.pc \in GdDone
    /\ ~joining
    /\ paused' = b
    /\ dirty' = TRUE
    /\ UNCHANGED << queue, ctlvars, wrkvars, convars, g_puts, g_evicted, timevars,
                    wg, rg, deployed, scales, dlopen, gd, g_ev >>

\* the frame get_realtime_data handed back last
LastFrame ==
    [ waveformid |-> g_ret[Len(g_ret)].waveformid,
      stateid    |-> g_ret[Len(g_ret)].stateid,
      trigstate  |-> g_ret[Len(g_ret)].trigstate ]

\* mutant: the result is stamped with the instrument's state id of the moment
BuildBuffNow(frame, sid) ==
    [ waveformid |-> frame.waveformid, stateid |-> sid, trigstate |-> sid ]

\* lines 240-245: the result object takes its ids from the seed frame
\* (sid: the instrument's state id, which the code does not use here)
BuildBuff(frame, sid) ==
    [ waveformid |-> frame.waveformid, stateid |-> frame.stateid,
      trigstate |-> frame.trigstate ]

\* mutant: the check for uncommitted settings is left out
RefusalUnchecked(dep, staged) == IF ~dep THEN "notdeployed" ELSE "go"

\* lines 193-196: what get_data refuses with, or "go"
Refusal(dep, staged) ==
    IF ~dep THEN "notdeployed" ELSE IF staged THEN "uncommitted" ELSE "go"

\* mutant: get_data never pauses the device
PauseNever(was_paused) == FALSE

\* line 212: the device has to be paused by get_data
PauseNeeded(was_paused) == ~was_paused

\* mutant: get_data never releases the pause
ResumeNever(was_paused) == FALSE

\* line 230: the pause set by get_data has to be released
ResumeNeeded(was_paused) == ~was_paused

\* lines 193-204: the checks, _stream_stop(), and the entry into get_realtime_data
GetDataCall(c, wait, timeout) ==
    /\ gd.pc \in GdDone
    /\ cpc[c] \in CallDone
    /\ gd.calls < MaxDataCalls
    /\ ~joining
    /\ IF Refusal(deployed, dirty) # "go"
       THEN /\ gd' = [gd EXCEPT !.pc = Refusal(deployed, dirty),
                                !.calls = @ + 1, !.pre_paused = paused,
                                !.frame = NoFrame, !.buff = NoFrame]
            /\ g_ev' = <<>>
            /\ UNCHANGED << dlopen, cpc, cargs >>
       ELSE /\ gd' = [pc |-> "rt", calls |-> gd.calls + 1, was_paused |-> FALSE,
                      pre_paused |-> paused, frame |-> NoFrame, buff |-> NoFrame]
            /\ dlopen' = FALSE
            /\ g_ev' = << "stream_stop" >>
            /\ LoopTest(c, [wait |-> wait, timeout |-> timeout])
    /\ UNCHANGED << queue, ctlvars, wrkvars, cframe, g_puts, g_pops, g_evicted, g_ret,
                    timevars, wg, rg, deployed, scales, dirty, paused >>

\* lines 205-206: what the handler of FrameTimeout raises.  "raise BufferTimeout(...)"
\* looks the name up, and the module binds no BufferTimeout (line 13 imports
\* FrameTimeout, NoDataException, StreamException and UncommittedSettings only):
\* the lookup raises NameError
SeedTimeoutRaises == "nameerror"

\* lines 204-209: get_realtime_data is back; FrameTimeout ends the call, else
\* the frame is kept and was_paused read
GetDataSeed(c) ==
    /\ gd.pc = "rt"
    /\ cpc[c] \in CallDone
    /\ gd' = IF cpc[c] = "timeout"
             THEN [gd EXCEPT !.pc = SeedTimeoutRaises]
             ELSE [gd EXCEPT !.pc = "pause", !.was_paused = paused,
                             !.frame = IF cpc[c] = "returned" THEN LastFrame ELSE NoFrame]
    /\ UNCHANGED << queue, ctlvars, wrkvars, convars, g_puts, g_evicted, timevars,
                    wg, rg, deployed, scales, dirty, paused, dlopen, g_ev >>

\* lines 212-215: set_pause(True) and its commit, unless the device was paused
GetDataPause ==
    /\ gd.pc = "pause"
    /\ gd' = [gd EXCEPT !.pc = "start"]
    /\ IF PauseNeeded(gd.was_paused)
       THEN /\ paused' = TRUE
            /\ stateid' = stateid + 1
            /\ g_ev' = Append(g_ev, "pause")
       ELSE UNCHANGED << paused, stateid, g_ev >>
    /\ UNCHANGED << queue, buflen, running, joining, wrkvars, convars, g_puts, g_evicted,
                    timevars, wg, rg, deployed, scales, dirty, dlopen >>

\* line 218: _stream_start(...): the download session is opened
GetDataStart ==
    /\ gd.pc = "start"
    /\ gd' = [gd EXCEPT !.pc = "recv"]
    /\ dlopen' = TRUE
    /\ g_ev' = Append(g_ev, "stream_start")
    /\ UNCHANGED << queue, ctlvars, wrkvars, convars, g_puts, g_evicted, timevars,
                    wg, rg, deployed, scales, dirty, paused >>

\* lines 220-224: _stream_receive_samples until NoDataException (ok); any
\* other exception of the download stream leaves get_data at once
GetDataReceive(ok) ==
    /\ gd.pc = "recv"
    /\ gd' = [gd EXCEPT !.pc = IF ok THEN "stop" ELSE "error"]
    /\ UNCHANGED << queue, ctlvars, wrkvars, convars, g_puts, g_evicted, timevars,
                    wg, rg, deployed, scales, dirty, paused, dlopen, g_ev >>

\* line 227: _stream_stop(): the download session is closed
GetDataStop ==
    /\ gd.pc = "stop"
    /\ gd' = [gd EXCEPT !.pc = "resume"]
    /\ dlopen' = FALSE
    /\ g_ev' = Append(g_ev, "stream_stop")
    /\ UNCHANGED << queue, ctlvars, wrkvars, convars, g_puts, g_evicted, timevars,
                    wg, rg, deployed, scales, dirty, paused >>

\* lines 230-250: set_pause(False) and its commit if get_data had paused, then
\* the result object (frame.waveformid on None raises AttributeError)
GetDataResume ==
    /\ gd.pc = "resume"
    /\ IF ResumeNeeded(gd.was_paused)
       THEN /\ paused' = FALSE
            /\ stateid' = stateid + 1
            /\ g_ev' = Append(g_ev, "unpause")
       ELSE UNCHANGED << paused, stateid, g_ev >>
    /\ gd' = IF gd.frame = NoFrame
             THEN [gd EXCEPT !.pc = "error"]
             ELSE [gd EXCEPT !.pc = "returned", !.buff = BuildBuff(gd.frame, stateid')]
    /\ UNCHANGED << queue, buflen, running, joining, wrkvars, convars, g_puts, g_evicted,
                    timevars, wg, rg, deployed, scales, dirty, dlopen >>

(***************************************************************************)
(* Specifications.                                                         *)
(***************************************************************************)
Consumer(c) ==
    \/ \E w \in BOOLEAN, t \in Timeouts : GetRealtimeCall(c, w, t) /\ UNCHANGED << timevars, datavars >>
    \/ QueueGet(c, FALSE) /\ UNCHANGED << timevars, datavars >>
    \/ QueueGetEmpty(c) /\ UNCHANGED << timevars, datavars >>
    \/ GetRealtimeCheck(c, TRUE) /\ UNCHANGED << timevars, datavars >>

\* the instrument streaming well-formed packets to its consumers
Next ==
    \/ \E s \in BOOLEAN : SetRunning(s) /\ SessionMark(s, FALSE)
    \/ JoinReturn
    \/ Commit
    \/ WorkerCheck
    \/ WorkerIdle
    \/ WorkerRecv(StreamPackets, {TRUE}, FALSE)
    \/ WorkerPut(FALSE)
    \/ \E c \in Consumers : Consumer(c)

Spec == Init /\ [][Next]_vars

\* the worker alone, fed whole and truncated packets of any channel index
NextAsm ==
    \/ \E s \in BOOLEAN : SetRunning(s) /\ SessionMark(s, FALSE)
    \/ JoinReturn
    \/ WorkerCheck
    \/ WorkerIdle
    \/ WorkerRecv(AsmPackets, BOOLEAN, TRUE)
    \/ WorkerPut(FALSE)

SpecAsm == Init /\ [][NextAsm]_vars

\* the queue between the worker and several reading threads
NextQueue ==
    \/ \E n \in 1..MaxBuflen : SetBufferLength(n)
    \/ SetRunning(TRUE) /\ SessionMark(TRUE, FALSE)
    \/ WorkerCheck
    \/ WorkerIdle
    \/ WorkerRecv(QueuePackets, {TRUE}, FALSE)
    \/ WorkerPut(TRUE)
    \/ \E c \in Consumers :
          \/ GetRealtimeCall(c, FALSE, NoneVal) /\ UNCHANGED << timevars, datavars >>
          \/ QueueGet(c, TRUE) /\ UNCHANGED << timevars, datavars >>
          \/ GetRealtimeCheck(c, TRUE) /\ UNCHANGED << timevars, datavars >>

SpecQueue == InitQueue /\ [][NextQueue]_vars

\* one caller of get_realtime_data against the clock, acquisition never
\* stopped; the device goes on stamping its frames with the state before the commit
NextTime ==
    \/ SetRunning(TRUE) /\ SessionMark(TRUE, FALSE)
    \/ Commit
    \/ WorkerCheck
    \/ WorkerIdle
    \/ WorkerRecv(QueuePackets, {TRUE}, FALSE)
    \/ WorkerPut(FALSE)
    \/ Tick
    \/ \E c \in Consumers :
          \/ \E w \in BOOLEAN, t \in TimedTimeouts : TimedCall(c, w, t)
          \/ TimedGet(c)
          \/ TimedGetEmpty(c)
          \/ TimedCheck(c)

SpecTime == Init /\ [][NextTime]_vars

\* sessions of acquisition following one another, with a consumer; the history
\* keeps where the current session began
NextSession ==
    \/ \E s \in BOOLEAN : SetRunning(s) /\ SessionMark(s, TRUE)
    \/ JoinReturn
    \/ WorkerCheck
    \/ WorkerIdle
    \/ WorkerRecv(QueuePackets, {TRUE}, FALSE)
    \/ WorkerPut(FALSE)
    \/ \E c \in Consumers : Consumer(c)

SpecSession == Init /\ [][NextSession]_vars

\* the same with the threads scheduled: the worker takes its next step, join
\* returns once the worker has ended, and a thread inside get_realtime_data
\* takes the step that is open to it
SpecSessionLive ==
    /\ Init
    /\ [][NextSession]_vars
    /\ WF_vars(WorkerCheck \/ WorkerIdle \/ WorkerRecv(QueuePackets, {TRUE}, FALSE) \/ WorkerPut(FALSE))
    /\ WF_vars(JoinReturn)
    /\ \A c \in Callers : WF_vars(cpc[c] \notin CallDone /\ Consumer(c))

\* the queue flushed now and then between the worker's puts and a reader's gets
NextFlush ==
    \/ \E s \in BOOLEAN : SetRunning(s) /\ SessionMark(s, FALSE)
    \/ JoinReturn
    \/ Flush
    \/ WorkerCheck
    \/ WorkerIdle
    \/ WorkerRecv(QueuePackets, {TRUE}, FALSE)
    \/ WorkerPut(TRUE)
    \/ \E c \in Consumers :
          \/ \E t \in Timeouts : GetRealtimeCall(c, FALSE, t) /\ UNCHANGED << timevars, datavars >>
          \/ QueueGet(c, TRUE) /\ UNCHANGED << timevars, datavars >>
          \/ QueueGetEmpty(c) /\ UNCHANGED << timevars, datavars >>
          \/ GetRealtimeCheck(c, TRUE) /\ UNCHANGED << timevars, datavars >>

SpecFlush == Init /\ [][NextFlush]_vars

\* lines 329-330 in a run that goes on for ever: the frame is enqueued and the
\* new accumulator takes over the number of the one enqueued (the frames are
\* told apart by what they hold, and no history is kept)
WorkerPutOn ==
    /\ wpc = "put"
    /\ ~PutNowaitWaits(queue, buflen)
    /\ queue' = FrameQueuePut(queue, buflen, fr)
    /\ fr' = FreshAccumulator(fr, fr.oid)
    /\ g_src' = NoSrc
    /\ wpc' = "loop"
    /\ UNCHANGED << g_start, noid, ctlvars, g_rx, convars, g_puts, g_evicted, timevars, datavars >>

\* the worker thread of a stream without end
StreamStep ==
    \/ WorkerCheck
    \/ WorkerIdle
    \/ WorkerRecv(StreamPackets, {TRUE}, FALSE)
    \/ WorkerPutOn

\* a thread inside get_realtime_data takes its next step
CallStep(c) ==
    \/ QueueGet(c, FALSE) /\ UNCHANGED << timevars, datavars >>
    \/ QueueGetEmpty(c) /\ UNCHANGED << timevars, datavars >>
    \/ GetRealtimeCheck(c, FALSE) /\ UNCHANGED << timevars, datavars >>

\* acquisition is started once and never stopped; the device stamps its frames
\* with any of the state ids; get_realtime_data is called again and again
NextStream ==
    \/ \E n \in 1..MaxBuflen : SetBufferLength(n)
    \/ SetRunning(TRUE) /\ SessionMark(TRUE, FALSE)
    \/ Commit
    \/ StreamStep
    \/ \E c \in Consumers :
          \/ \E w \in BOOLEAN, t \in Timeouts : GetRealtimeCall(c, w, t) /\ UNCHANGED << timevars, datavars >>
          \/ CallStep(c)

\* the threads are scheduled: the worker takes its next step (select returns
\* after 1.0 s at the latest) and so does a thread inside get_realtime_data
\* (Queue.get wakes up when a frame is put, or after its timeout)
SpecStream ==
    /\ Init
    /\ [][NextStream]_vars
    /\ WF_vars(StreamStep)
    /\ \A c \in Callers : WF_vars(CallStep(c))

(***************************************************************************)
(* The Bode analyser: frames of class BodeData, whose process_complete     *)
(* needs the scaling data that BodeAnalyser.commit records per state id.   *)
(* The accumulator is taken as built.                                      *)
(***************************************************************************)
\* the state id in a packet's header (offset 5)
PktStateId(p) == p[6]

\* mutant: the frame is rendered whether or not its state id has scaling data
ProcessCompleteAlways(sid, sc) == TRUE

\* BodeData.process_complete where it returns: "if self._stateid not in
\* self.scales: ... return" gives None (lines 97-100), and with scaling data the
\* result is "self.ch1 and self.ch2" (line 129), two _BodeChannelData objects
process_complete(sid, sc) == sid \in sc

\* BodeAnalyser.commit is between super().commit() (line 391), which has raised
\* the state id, and the recording of the scaling data (line 395)
BodeCommitting == stateid # 0 /\ stateid \notin scales

\* BodeAnalyser.commit lines 387-391: the sweep is restarted and the registers
\* are committed
BodeCommit == ~BodeCommitting /\ Commit

\* BodeAnalyser.commit line 395: self.scales[self._stateid] = self._calculate_scales()
RecordScales ==
    /\ BodeCommitting
    /\ scales' = scales \cup {stateid}
    /\ UNCHANGED << queue, ctlvars, wrkvars, convars, g_puts, g_evicted, timevars,
                    deployed, dirty, paused, dlopen, gd, g_ev, wg, rg >>

\* the worker's add_packet on a BodeData accumulator: the hook is
\* process_complete on the state id the packet has stamped on the frame
BodeRecv ==
    \E p \in StreamPackets :
        WorkerRecv({p}, {process_complete(PktStateId(p), scales)}, TRUE)

\* the transport fails, or process_complete raises on a frame that has scaling
\* data: the samples do not pair up into I and Q (ValueError at line 41), or
\* the output amplitude is 0 (ZeroDivisionError at line 52), or the channel was
\* never rendered (AttributeError at line 129); lines 122-126 catch none of them
BodeRaise == WorkerRaise({ p \in StreamPackets : PktStateId(p) \in scales })

\* a Bode analyser streaming to a consumer while its settings are committed
NextBode ==
    \/ \E s \in BOOLEAN : SetRunning(s) /\ SessionMark(s, FALSE)
    \/ JoinReturn
    \/ BodeCommit
    \/ RecordScales
    \/ WorkerCheck
    \/ WorkerIdle
    \/ BodeRecv
    \/ BodeRaise
    \/ WorkerPut(FALSE)
    \/ \E c \in Consumers : Consumer(c)

SpecBode == Init /\ [][NextBode]_vars

\* start and stop with nobody reading the queue; the worker meets whole and
\* truncated packets, vetoes and exceptions
NextWorker ==
    \/ \E st \in BOOLEAN : SetRunning(st) /\ SessionMark(st, FALSE)
    \/ \E closed \in BOOLEAN : SpawnFailing(closed)
    \/ JoinReturn
    \/ WorkerCheck
    \/ WorkerIdle
    \/ WorkerRecv(AsmPackets, BOOLEAN, FALSE)
    \/ WorkerRaise(AsmPackets)
    \/ WorkerPut(FALSE)

SpecWorker == Init /\ [][NextWorker]_vars

\* the worker thread is scheduled, and select returns after 1.0 s at the latest
WorkerStep ==
    \/ WorkerCheck
    \/ WorkerIdle
    \/ WorkerRecv(QueuePackets, BOOLEAN, FALSE)
    \/ WorkerRaise(QueuePackets)
    \/ WorkerPut(FALSE)

\* start and stop with nobody reading the queue, the packets being whole ones
NextWorkerLive ==
    \/ \E st \in BOOLEAN : SetRunning(st) /\ SessionMark(st, FALSE)
    \/ \E closed \in BOOLEAN : SpawnFailing(closed)
    \/ JoinReturn
    \/ WorkerStep

\* the same with the threads scheduled fairly: the worker takes its next step
\* and join returns once the worker has ended
SpecWorkerLive ==
    /\ Init
    /\ [][NextWorkerLive]_vars
    /\ WF_vars(WorkerStep)
    /\ WF_vars(JoinReturn)

\* the caller's thread alternating settings, start/stop and get_data, with
\* the worker streaming
NextData ==
    \/ \E st \in BOOLEAN : deployed /\ gd.pc \in GdDone /\ SetRunning(st) /\ SessionMark(st, FALSE)
    \/ JoinReturn
    \/ gd.pc \in GdDone /\ Commit
    \/ \E b \in BOOLEAN : SetPause(b)
    \/ WorkerCheck
    \/ WorkerIdle
    \/ WorkerRecv(CurrentPackets(stateid), {TRUE}, FALSE)
    \/ WorkerPut(FALSE)
    \/ GetDataPause
    \/ GetDataStart
    \/ \E ok \in BOOLEAN : GetDataReceive(ok)
    \/ GetDataStop
    \/ GetDataResume
    \/ \E c \in Consumers :
          \/ \E w \in BOOLEAN, t \in Timeouts : GetDataCall(c, w, t)
          \/ gd.pc = "rt" /\ QueueGet(c, FALSE) /\ UNCHANGED << timevars, datavars >>
          \/ gd.pc = "rt" /\ QueueGetEmpty(c) /\ UNCHANGED << timevars, datavars >>
          \/ gd.pc = "rt" /\ GetRealtimeCheck(c, TRUE) /\ UNCHANGED << timevars, datavars >>
          \/ GetDataSeed(c)

SpecData == InitData /\ [][NextData]_vars

(***************************************************************************)
(* The waveform generator: argument checks, staging, commit.               *)
(***************************************************************************)
\* _SG_WAVE_SINE
SG_WAVE_SINE == 0
\* _SG_WAVE_SQUARE
SG_WAVE_SQUARE == 1
\* _SG_MAX_RISE = 1e9 - 1
SG_MAX_RISE == 999999999
\* _SG_MOD_FREQ_MAX = 62.5e6
SG_MOD_FREQ_MAX == 62500000

\* one statement of a method body: an attribute assignment self.out<ch>_<name> = val
SetAttr(ch, name, val) == [k |-> "set", ch |-> ch, name |-> name, val |-> val, ok |-> TRUE]

\* one statement of a method body: a check that raises unless ok
Check(ok) == [k |-> "check", ch |-> 0, name |-> "", val |-> 0, ok |-> ok]

\* _utils.check_parameter_valid('set', value, allowed, allow_none=...)
CheckSet(value, allowed, allow_none) ==
    Check(IF value = NoneVal THEN allow_none ELSE value \in allowed)

\* _utils.check_parameter_valid('range', value, [lo, hi])
CheckRange(value, lo, hi) == Check(value >= lo /\ value <= hi)

\* _utils.str_to_val(lookup, key): raises unless the key is in the lookup
StrToValKnown(lookup, key) == Check(key \in DOMAIN lookup)

\* _str_to_modsource
str_to_modsource == [internal |-> 0, in |-> 1, out |-> 2]

\* _str_to_modtype
str_to_modtype == [amplitude |-> 1, frequency |-> 2, phase |-> 4]

\* the statements of a body run in order; the first failing check raises and leaves what
\* the statements before it assigned
RECURSIVE RunBody(_, _, _)
RunBody(stmts, i, attr) ==
    IF i > Len(stmts) THEN [attr |-> attr, raised |-> FALSE]
    ELSE IF stmts[i].k = "check"
         THEN IF stmts[i].ok THEN RunBody(stmts, i + 1, attr)
              ELSE [attr |-> attr, raised |-> TRUE]
         ELSE RunBody(stmts, i + 1,
                      [attr EXCEPT ![stmts[i].ch][stmts[i].name] = stmts[i].val])

\* upper_voltage > 1.0 or lower_voltage < -1.0, in quarter volts
OutsideOutputRange(offset, amplitude) ==
    (offset + amplitude \div 2 > 4) \/ (offset - amplitude \div 2 < -4)

\* the assignments of gen_sinewave for channel ch
SinewaveSets(ch, a) ==
    << SetAttr(ch, "waveform", SG_WAVE_SINE), SetAttr(ch, "enable", TRUE),
       SetAttr(ch, "amplitude", a.amplitude), SetAttr(ch, "frequency", a.frequency),
       SetAttr(ch, "offset", a.offset), SetAttr(ch, "phase", a.phase) >>

\* gen_sinewave with its checks after the assignments
SinewaveBodyLateChecks(a) ==
    (IF a.ch = 1 THEN SinewaveSets(1, a) ELSE IF a.ch = 2 THEN SinewaveSets(2, a) ELSE <<>>)
    \o << CheckSet(a.ch, {1, 2}, FALSE), CheckRange(a.amplitude, 0, 8),
          CheckRange(a.frequency, 0, 250000000), CheckRange(a.phase, 0, 360),
          Check(~OutsideOutputRange(a.offset, a.amplitude)) >>

\* gen_sinewave
SinewaveBody(a) ==
    << CheckSet(a.ch, {1, 2}, FALSE), CheckRange(a.amplitude, 0, 8),
       CheckRange(a.frequency, 0, 250000000), CheckRange(a.phase, 0, 360),
       Check(~OutsideOutputRange(a.offset, a.amplitude)) >>
    \o (IF a.ch = 1 THEN SinewaveSets(1, a) ELSE IF a.ch = 2 THEN SinewaveSets(2, a) ELSE <<>>)

\* frequency / t if t else _SG_MAX_RISE, t in tenths of a cycle
EdgeRate(frequency, t) == IF t # 0 THEN (frequency \div t) * 10 ELSE SG_MAX_RISE

\* the assignments of gen_squarewave for channel ch
SquarewaveSets(ch, a) ==
    << SetAttr(ch, "waveform", SG_WAVE_SQUARE), SetAttr(ch, "enable", TRUE),
       SetAttr(ch, "amplitude", a.amplitude), SetAttr(ch, "frequency", a.frequency),
       SetAttr(ch, "offset", a.offset), SetAttr(ch, "clipsine", FALSE),
       SetAttr(ch, "t0", a.risetime), SetAttr(ch, "t1", a.duty),
       SetAttr(ch, "t2", a.duty + a.falltime),
       SetAttr(ch, "riserate", EdgeRate(a.frequency, a.risetime)),
       SetAttr(ch, "fallrate", EdgeRate(a.frequency, a.falltime)),
       SetAttr(ch, "phase", a.phase) >>

\* gen_squarewave
SquarewaveBody(a) ==
    << CheckSet(a.ch, {1, 2}, FALSE), CheckRange(a.amplitude, 0, 8),
       CheckRange(a.frequency, 0, 100000000), CheckRange(a.offset, -4, 4),
       CheckRange(a.duty, 0, 10), CheckRange(a.risetime, 0, 10),
       CheckRange(a.falltime, 0, 10), CheckRange(a.phase, 0, 360),
       Check(~OutsideOutputRange(a.offset, a.amplitude)),
       Check(~(a.duty < a.risetime)),
       Check(~(a.duty + a.falltime > 10)) >>
    \o (IF a.ch = 1 THEN SquarewaveSets(1, a) ELSE IF a.ch = 2 THEN SquarewaveSets(2, a)
        ELSE <<>>)

\* gen_rampwave: its own checks, then gen_squarewave with duty = risetime = symmetry and
\* falltime = 1 - symmetry
RampwaveBody(a) ==
    << CheckSet(a.ch, {1, 2}, FALSE), CheckRange(a.amplitude, 0, 8),
       CheckRange(a.frequency, 0, 100000000), CheckRange(a.offset, -4, 4),
       CheckRange(a.symmetry, 0, 10), CheckRange(a.phase, 0, 360),
       Check(~OutsideOutputRange(a.offset, a.amplitude)) >>
    \o SquarewaveBody([ch |-> a.ch, amplitude |-> a.amplitude, frequency |-> a.frequency,
                       offset |-> a.offset, duty |-> a.symmetry, risetime |-> a.symmetry,
                       falltime |-> 10 - a.symmetry, phase |-> a.phase])

\* gen_modulate_off
ModulateOffBody(a) ==
    << CheckSet(a.ch, {1, 2}, TRUE) >>
    \o (IF a.ch = 1 THEN << SetAttr(1, "modulation", 0) >> ELSE <<>>)
    \o (IF a.ch = 2 THEN << SetAttr(2, "modulation", 0) >> ELSE <<>>)

\* the range check of gen_modulate on depth, by modulation type
DepthCheck(mtype, depth) ==
    IF mtype = 1 THEN << CheckRange(depth, 0, 1) >>
    ELSE IF mtype = 2 THEN << CheckRange(depth, 0, SG_MOD_FREQ_MAX) >>
    ELSE IF mtype = 4 THEN << CheckRange(depth, 0, 360) >>
    ELSE <<>>

\* depth_parameter of gen_modulate after calibration, as the fraction and the gain applied
DepthParameter(ch, mtype, source, depth) ==
    [num |-> IF mtype \in {1, 2, 4} THEN depth ELSE 0,
     den |-> IF mtype = 2 THEN "DAC_SMP_RATE/8" ELSE IF mtype = 4 THEN "360" ELSE "1",
     gain |-> IF source = 2 THEN (IF ch = 1 THEN "2^15*dac2" ELSE "2^15*dac1")
              ELSE IF source = 1 THEN (IF ch = 1 THEN "2^9*adc1" ELSE "2^9*adc2")
              ELSE "unity"]

\* what gen_modulate does once source and mtype were looked up
ModulateStaging(a, source, mtype) ==
    DepthCheck(mtype, a.depth)
    \o (IF a.ch = 1
        THEN << SetAttr(1, "modulation", mtype), SetAttr(1, "modsource", source),
                SetAttr(1, "mod_frequency", a.frequency) >>
        ELSE IF a.ch = 2
        THEN << SetAttr(2, "modulation", mtype), SetAttr(2, "modsource", source),
                SetAttr(2, "mod_frequency", a.frequency) >>
        ELSE <<>>)
    \o (IF a.ch = 1
        THEN << SetAttr(1, "mod_amplitude", DepthParameter(1, mtype, source, a.depth)) >>
        ELSE IF a.ch = 2
        THEN << SetAttr(2, "mod_amplitude", DepthParameter(2, mtype, source, a.depth)) >>
        ELSE <<>>)

\* gen_modulate
ModulateBody(a) ==
    << CheckSet(a.ch, {1, 2}, FALSE), CheckRange(a.frequency, 0, 250000000),
       StrToValKnown(str_to_modsource, a.source), StrToValKnown(str_to_modtype, a.mtype) >>
    \o (IF a.source \in DOMAIN str_to_modsource /\ a.mtype \in DOMAIN str_to_modtype
        THEN ModulateStaging(a, str_to_modsource[a.source], str_to_modtype[a.mtype])
        ELSE <<>>)

\* @needs_commit around a method body: the body runs, and unless it raised, commit()
\* writes the staged attributes to the device
NeedsCommit(op, a, body) ==
    /\ wg.n < MaxGenCalls
    /\ LET r == RunBody(body, 1, wg.attr)
       IN wg' = [attr |-> r.attr, pre |-> wg.attr,
                 dev |-> IF r.raised THEN wg.dev ELSE r.attr, predev |-> wg.dev,
                 call |-> [op |-> op, raised |-> r.raised, args |-> a],
                 n |-> wg.n + 1]
    /\ UNCHANGED << queue, ctlvars, wrkvars, convars, g_puts, g_evicted, timevars,
                    deployed, scales, dirty, paused, dlopen, gd, g_ev, rg >>

\* the arguments tried: one accepted call and its variations, one argument at a time
SineBase == [ch |-> 1, amplitude |-> 4, frequency |-> 1000000, offset |-> 0, phase |-> 0]

SineArgs ==
    {SineBase}
    \cup { [SineBase EXCEPT !.ch = c] : c \in {2, 3} }
    \cup { [SineBase EXCEPT !.amplitude = v] : v \in {8, 12} }
    \cup { [SineBase EXCEPT !.frequency = 300000000] }
    \cup { [SineBase EXCEPT !.offset = v] : v \in {-4, 2, 4} }
    \cup { [SineBase EXCEPT !.phase = 400] }

SquareBase == [ch |-> 1, amplitude |-> 4, frequency |-> 1000000, offset |-> 0, duty |-> 5,
               risetime |-> 0, falltime |-> 0, phase |-> 0]

SquareArgs ==
    {SquareBase}
    \cup { [SquareBase EXCEPT !.ch = c] : c \in {2, 3} }
    \cup { [SquareBase EXCEPT !.amplitude = 12] }
    \cup { [SquareBase EXCEPT !.frequency = 250000000] }
    \cup { [SquareBase EXCEPT !.offset = v] : v \in {4, 8} }
    \cup { [SquareBase EXCEPT !.duty = 11] }
    \cup { [SquareBase EXCEPT !.risetime = v] : v \in {5, 10, 11} }
    \cup { [SquareBase EXCEPT !.falltime = v] : v \in {5, 10, 11} }
    \cup { [SquareBase EXCEPT !.phase = 400] }

RampBase == [ch |-> 1, amplitude |-> 4, frequency |-> 1000000, offset |-> 0, symmetry |-> 5,
             phase |-> 0]

RampArgs ==
    {RampBase}
    \cup { [RampBase EXCEPT !.ch = c] : c \in {2, 3} }
    \cup { [RampBase EXCEPT !.amplitude = 12] }
    \cup { [RampBase EXCEPT !.frequency = 250000000] }
    \cup { [RampBase EXCEPT !.offset = v] : v \in {4, 8} }
    \cup { [RampBase EXCEPT !.symmetry = v] : v \in {0, 10, 11} }
    \cup { [RampBase EXCEPT !.phase = 400] }

ModBase == [ch |-> 1, mtype |-> "amplitude", source |-> "internal", depth |-> 1,
            frequency |-> 1000000]

ModArgs ==
    {ModBase}
    \cup { [ModBase EXCEPT !.ch = c] : c \in {2, 3} }
    \cup { [ModBase EXCEPT !.mtype = m] : m \in {"frequency", "phase", "off"} }
    \cup { [ModBase EXCEPT !.source = v] : v \in {"in", "out", "adc"} }
    \cup { [ModBase EXCEPT !.depth = 400] }
    \cup { [ModBase EXCEPT !.mtype = "phase", !.depth = 400] }
    \cup { [ModBase EXCEPT !.mtype = "frequency", !.depth = 100000000] }
    \cup { [ModBase EXCEPT !.frequency = 300000000] }

GenSinewave == \E a \in SineArgs : NeedsCommit("gen_sinewave", a, SinewaveBody(a))

GenSquarewave == \E a \in SquareArgs : NeedsCommit("gen_squarewave", a, SquarewaveBody(a))

GenRampwave == \E a \in RampArgs : NeedsCommit("gen_rampwave", a, RampwaveBody(a))

GenModulate == \E a \in ModArgs : NeedsCommit("gen_modulate", a, ModulateBody(a))

GenModulateOff ==
    \E c \in {NoneVal, 1, 2, 3} :
        NeedsCommit("gen_modulate_off", [ch |-> c], ModulateOffBody([ch |-> c]))

NextGen ==
    \/ GenSinewave
    \/ GenSquarewave
    \/ GenRampwave
    \/ GenModulate
    \/ GenModulateOff

\* a waveform generator attached to its device, before its first call
InitGen == InitWith(Callers) /\ deployed = TRUE /\ wg = NoGen /\ rg = NoReg

SpecGen == InitGen /\ [][NextGen]_vars

(***************************************************************************)
(* Register fields: a Python integer is a word of four 16-bit limbs, most  *)
(* significant first; a register holds the two low limbs.                  *)
(***************************************************************************)
Limbs == 1..4

\* the integer 0
WZero == << 0, 0, 0, 0 >>

\* 0x0000FFFF
MaskLow16 == << 0, 0, 0, 65535 >>

\* 0xFFFF0000
MaskHigh16 == << 0, 0, 65535, 0 >>

\* 0xFFFFFFFF
Mask32 == << 0, 0, 65535, 65535 >>

\* a value below 2^16 as a word
Word16(v) == << 0, 0, 0, v >>

RECURSIVE BitAnd(_, _, _)
BitAnd(a, b, n) ==
    IF n = 0 THEN 0 ELSE (a % 2) * (b % 2) + 2 * BitAnd(a \div 2, b \div 2, n - 1)

RECURSIVE BitOr(_, _, _)
BitOr(a, b, n) ==
    IF n = 0 THEN 0
    ELSE (IF a % 2 = 1 \/ b % 2 = 1 THEN 1 ELSE 0) + 2 * BitOr(a \div 2, b \div 2, n - 1)

\* a & b
WAnd(a, b) == [i \in Limbs |-> BitAnd(a[i], b[i], 16)]

\* a | b
WOr(a, b) == [i \in Limbs |-> BitOr(a[i], b[i], 16)]

\* a >> 16
WShr16(a) == << 0, a[1], a[2], a[3] >>

\* a << 16, for a below 2^48
WShl16(a) == << a[2], a[3], a[4], 0 >>

\* a decoded or logical integer: sign and magnitude
Unsigned(w) == [neg |-> FALSE, mag |-> w]

\* the high register of the hand-written encoders, without the shift
SplitHighUnshifted(raw, old0) == WOr(WAnd(old0, MaskLow16), WAnd(raw, MaskHigh16))

\* mutant: the high register is written without keeping its low half
SplitHighClobber(raw, old0) == WAnd(WShr16(raw), Mask32)

\* (old[0] & 0x0000FFFF) | (raw >> 16) & 0xFFFF0000
SplitHigh(raw, old0) == WOr(WAnd(old0, MaskLow16), WAnd(WShr16(raw), MaskHigh16))

\* raw & 0xFFFFFFFF
SplitLow(raw) == WAnd(raw, Mask32)

\* (rval[0] & 0xFFFF0000) << 16 | rval[1]
Reassemble(rval) == WOr(WShl16(WAnd(rval[1], MaskHigh16)), rval[2])

\* to_reg_unsigned(0, 16): the value replaces the low 16 bits of the register
ToRegUnsigned16(val, old) == WOr(WAnd(old, MaskHigh16), WAnd(Word16(val), MaskLow16))

\* from_reg_signed(0, 16): the low 16 bits of the register as a two's-complement number
FromRegSigned16(reg) ==
    IF reg[4] >= 32768 THEN [neg |-> TRUE, mag |-> Word16(65536 - reg[4])]
    ELSE [neg |-> FALSE, mag |-> Word16(reg[4])]

\* the fields whose two-register encoding is written by hand
Hand48 == {"mod1_frequency", "mod2_frequency", "out1_fallrate", "out2_fallrate"}

\* the lookup-table length fields
LutLength == {"lut_length1", "lut_length2"}

\* ARB_MODE_1000, ARB_MODE_500, ARB_MODE_250, ARB_MODE_125
ArbModes == 0..3

\* the largest table length _set_mode accepts in a mode
MaxLutLength(mode) ==
    IF mode = 1 THEN 8192 ELSE IF mode = 2 THEN 16384 ELSE IF mode = 3 THEN 32768 ELSE 65536

\* limb values tried
LimbValues == {0, 1, 32768, 65535}

\* raw integers 0 .. 2^48 - 1
Raw48 == { << 0, a, b, c >> : a, b, c \in LimbValues }

\* prior contents of a register
Reg32 == { << 0, 0, a, b >> : a, b \in {0, 65535} }

\* table lengths tried: the ends of every mode's range and their neighbours
LutLengths == {0, 1, 2, 8192, 8193, 16384, 16385, 32768, 32769, 65536, 65537}

\* a field, the value about to be set and the prior content of its registers
RegInputs ==
    { [pc |-> "in", field |-> f, raw |-> r, mode |-> 0, length |-> 0,
       old |-> << o, WZero >>, regs |-> << o, WZero >>, dec |-> Unsigned(WZero)] :
         f \in Hand48, r \in Raw48, o \in Reg32 }
    \cup
    { [pc |-> "in", field |-> f, raw |-> WZero, mode |-> m, length |-> n,
       old |-> << o, WZero >>, regs |-> << o, WZero >>, dec |-> Unsigned(WZero)] :
         f \in LutLength, m \in -1..3, n \in LutLengths, o \in Reg32 }

\* everything but the registers under the field handler
regframe == << queue, ctlvars, wrkvars, convars, g_puts, g_evicted, timevars,
               deployed, scales, dirty, paused, dlopen, gd, g_ev, wg >>

InitReg == InitWith(Callers) /\ deployed = TRUE /\ wg = Unbuilt /\ rg \in RegInputs

\* the field's encoder applied to the staged registers: self.<field> = value
FieldSet ==
    /\ rg.pc = "in"
    /\ rg.field \in Hand48
    /\ rg' = [rg EXCEPT !.pc = "set",
                        !.regs = << SplitHigh(rg.raw, rg.old[1]), SplitLow(rg.raw) >>]
    /\ UNCHANGED regframe

\* ArbWaveGen._set_mode(ch, mode, length): the checks, then self.lut_length<ch> = length - 1
SetMode ==
    /\ rg.pc = "in"
    /\ rg.field \in LutLength
    /\ IF rg.mode \in ArbModes /\ rg.length >= 1 /\ rg.length <= MaxLutLength(rg.mode)
       THEN rg' = [rg EXCEPT !.pc = "set",
                             !.regs = << ToRegUnsigned16(rg.length - 1, rg.old[1]), WZero >>]
       ELSE rg' = [rg EXCEPT !.pc = "raised"]
    /\ UNCHANGED regframe

\* the field's decoder applied to the staged registers: reading self.<field>
FieldGet ==
    /\ rg.pc = "set"
    /\ rg' = [rg EXCEPT !.pc = "got",
                        !.dec = IF rg.field \in Hand48 THEN Unsigned(Reassemble(rg.regs))
                                ELSE FromRegSigned16(rg.regs[1])]
    /\ UNCHANGED regframe

NextReg ==
    \/ FieldSet
    \/ SetMode
    \/ FieldGet

SpecReg == InitReg /\ [][NextReg]_vars

(***************************************************************************)
(* Properties.                                                             *)
(***************************************************************************)
\* the oids in the queue, oldest first
QueueOids == [i \in 1..Len(queue) |-> queue[i].oid]

\* the last n elements of s (all of s when it is shorter)
LastN(s, n) == SubSeq(s, Len(s) - Min(Len(s), n) + 1, Len(s))

\* the elements of a sequence
Range(s) == { s[i] : i \in 1..Len(s) }

\* position of oid in the order the worker enqueued the frames
PutIndex(oid) == CHOOSE i \in 1..Len(g_puts) : g_puts[i] = oid

\* the slot add_packet's documentation gives channel chan (0 -> 1, 1 -> 2)
SlotOf(chan) == IF chan = 0 THEN 1 ELSE 2

\* raw is the payload bytes[15 : len-8] of a packet of frame id frameid that
\* the device sent for this slot: the sample bytes of a whole packet, or
\* nothing when the packet was cut short
PayloadFrom(raw, frameid, slot) ==
    \/ raw = <<>>
    \/ \E c \in 0..2 : SlotOf(c) = slot /\ raw = PayloadOf(frameid, c)

\* C1: get_realtime_data(wait=True) never returns a frame whose trigger-state
\* id differs from the instrument's state id at the moment it returns,
\* whatever commits and frames came in between.
C1_WaitReturnsCurrentState ==
    \A i \in 1..Len(g_ret) : g_ret[i].wait => g_ret[i].trigstate = g_ret[i].sid

\* C1 witness: a wait=True call returned a frame stamped with the state id of
\* a commit made after construction.
C1_Witness ==
    \E i \in 1..Len(g_ret) : g_ret[i].wait /\ g_ret[i].sid >= 1 /\ g_ret[i].oid >= 2

\* C2: the worker's put is never blocked and never fails: whenever the worker
\* is about to put, the put can happen at once, and on a full queue it evicts
\* the oldest frame and inserts the new one in that one step.
C2_PutNeverBlocks ==
    wpc = "put" =>
        ENABLED ( /\ WorkerPut(TRUE)
                  /\ queue' = IF Len(queue) = buflen
                              THEN Append(Tail(queue), fr) ELSE Append(queue, fr) )

\* C2 witness: the worker is about to put into a full queue of capacity 2.
C2_Witness == wpc = "put" /\ buflen = 2 /\ Len(queue) = buflen

\* C3: the queue never holds more than its capacity N, and after k
\* insertions with no removal it holds exactly the last min(k, N) inserted
\* frames, in insertion order.
C3_LastMinKN ==
    /\ Len(queue) <= buflen
    /\ g_pops = <<>> => QueueOids = LastN(g_puts, buflen)

\* C3 witness: more frames were inserted than fit, with no removal, capacity 2.
C3_Witness == g_pops = <<>> /\ buflen = 2 /\ Len(g_puts) > buflen

\* C4: frames come back in the order the worker enqueued them: the queue
\* hands frames out in enqueue order, and of two frames returned to a
\* consumer by get_realtime_data the one enqueued earlier is returned earlier.
C4_ReturnedInOrder ==
    /\ \A i, j \in 1..Len(g_pops) :
          i < j => PutIndex(g_pops[i][2]) < PutIndex(g_pops[j][2])
    /\ \A i, j \in 1..Len(g_ret) :
          i < j /\ g_ret[i].c = g_ret[j].c
             => PutIndex(g_ret[i].oid) < PutIndex(g_ret[j].oid)

\* C4 witness: one consumer was returned two frames, with two frames queued
\* at once on the way.
C4_Witness ==
    /\ \E i, j \in 1..Len(g_ret) : i < j /\ g_ret[i].c = g_ret[j].c
    /\ buflen = 2

\* C5: every enqueued frame is handed to at most one consumer, and a frame
\* not handed out was evicted by a put on a full queue or is still queued.
C5_NoLossNoDuplicate ==
    LET popped == { g_pops[i][2] : i \in 1..Len(g_pops) }
        queued == Range(QueueOids)
    IN  /\ \A i, j \in 1..Len(g_pops) : i # j => g_pops[i][2] # g_pops[j][2]
        /\ \A i, j \in 1..Len(queue) : i # j => queue[i].oid # queue[j].oid
        /\ Range(g_puts) = popped \cup g_evicted \cup queued
        /\ popped \cap g_evicted = {}
        /\ popped \cap queued = {}
        /\ g_evicted \cap queued = {}

\* C5 witness: two consumers each got a frame, and a frame was evicted.
C5_Witness ==
    /\ \E i, j \in 1..Len(g_pops) : g_pops[i][1] # g_pops[j][1]
    /\ g_evicted # {}

\* the packet of the worker's last step got past add_packet's length check
RxMerged == g_rx.on /\ Len(g_rx.pkt) > hdr_len

\* the slot the packet of the worker's last step belongs to
RxSlot == SlotOf(PktChan(g_rx.pkt))

\* the worker's last step ran process_complete() and it vetoed: the packet
\* carried the accumulator's frame id and the other slot was valid already
VetoStep ==
    /\ RxMerged
    /\ ~g_rx.hook
    /\ PktFrameId(g_rx.pkt) = g_rx.pre.frameid
    /\ g_rx.pre.chs_valid[3 - RxSlot]

\* C6 (as amended): an accumulator is complete only when both channel slots
\* hold a payload taken from packets carrying its current frame id (and then
\* it goes to the queue); every frame the worker enqueues is complete with
\* both channel payloads from packets of one and the same frame id.
C6_CompleteOnlySameFrameId ==
    /\ fr.complete =>
          /\ wpc = "put"
          /\ fr.chs_valid = <<TRUE, TRUE>>
          /\ g_src = <<fr.frameid, fr.frameid>>
    /\ wpc = "put" => fr.complete
    /\ \A i \in 1..Len(queue) :
          /\ queue[i].complete
          /\ PayloadFrom(queue[i].raw1, queue[i].frameid, 1)
          /\ PayloadFrom(queue[i].raw2, queue[i].frameid, 2)

\* C6 witness: a frame of id 258 with both channels' payloads is about to be
\* enqueued behind another one already in the queue.
C6_Witness ==
    /\ wpc = "put"
    /\ fr.frameid = 258
    /\ fr.raw1 = PayloadOf(258, 0)
    /\ fr.raw2 = PayloadOf(258, 1)
    /\ queue # <<>>

\* C6 (original statement): the accumulator is complete exactly when both
\* slots hold a payload from packets of its current frame id.
C6_CompleteExactlyWhen ==
    fr.complete <=> (g_src[1] = fr.frameid /\ g_src[2] = fr.frameid)

\* C7: a packet whose frame id differs from the accumulator's makes the
\* accumulator adopt the new id with both valid flags reset before the merge
\* (only the packet's own slot is valid afterwards); the step completes
\* nothing, and no frame that is enqueued carries a payload of another frame id.
C7_FrameIdChangeResets ==
    /\ RxMerged /\ PktFrameId(g_rx.pkt) # g_rx.pre.frameid =>
          /\ fr.frameid = PktFrameId(g_rx.pkt)
          /\ fr.chs_valid = [i \in 1..2 |-> i = RxSlot]
          /\ ~fr.complete
          /\ wpc = "loop"
    /\ \A i \in 1..Len(queue) : \A raw \in {queue[i].raw1, queue[i].raw2} :
          raw # <<>> => \E c \in 0..2 : raw = PayloadOf(queue[i].frameid, c)

\* C7 witness: channel 1 of frame 258 arrived on top of a partial frame 0;
\* slot 1 still holds the abandoned payload, and is not valid.
C7_Witness ==
    /\ RxMerged
    /\ g_rx.pre.frameid = 0
    /\ g_rx.pre.chs_valid = <<TRUE, FALSE>>
    /\ fr.frameid = 258
    /\ fr.chs_valid = <<FALSE, TRUE>>
    /\ fr.raw1 = PayloadOf(0, 0)
    /\ fr.raw2 = PayloadOf(258, 1)

\* C8 (as amended): when process_complete() gives a negative result the frame
\* is not complete and is not enqueued; the payload bytes merged so far stay
\* in their slots, but both channel-valid flags are reset, so both channels
\* have to arrive again before the frame can complete.
C8_VetoResetsFlags ==
    VetoStep =>
        /\ ~fr.complete
        /\ wpc = "loop"
        /\ fr.chs_valid = <<FALSE, FALSE>>
        /\ fr.frameid = g_rx.pre.frameid
        /\ LET payload == Slice(g_rx.pkt, hdr_len, Len(g_rx.pkt) - FooterLen)
           IN  IF RxSlot = 1
               THEN fr.raw1 = payload /\ fr.raw2 = g_rx.pre.raw2
               ELSE fr.raw2 = payload /\ fr.raw1 = g_rx.pre.raw1

\* C8 witness: the hook vetoed a frame whose two payloads had arrived.
C8_Witness ==
    /\ VetoStep
    /\ fr.raw1 = PayloadOf(258, 0)
    /\ fr.raw2 = PayloadOf(258, 1)
    /\ fr.chs_valid = <<FALSE, FALSE>>

\* C8 (original statement): after a negative hook result the frame is not
\* complete, not enqueued, and the channels valid before the hook ran (both)
\* remain valid.
C8_VetoKeepsValid ==
    VetoStep =>
        /\ ~fr.complete
        /\ wpc = "loop"
        /\ fr.chs_valid = <<TRUE, TRUE>>

\* C9: a buffer shorter than the 15-byte header is dropped with no effect:
\* every attribute of the accumulator is as before, and the worker goes on
\* with its loop (nothing is raised, nothing is enqueued).
C9_ShortBufferDropped ==
    g_rx.on /\ Len(g_rx.pkt) < hdr_len => fr = g_rx.pre /\ wpc = "loop"

\* C9 witness: a 14-byte buffer arrived while channel 0 of frame 258 was held.
C9_Witness ==
    /\ g_rx.on
    /\ Len(g_rx.pkt) = hdr_len - 1
    /\ fr.frameid = 258
    /\ fr.chs_valid = <<TRUE, FALSE>>
    /\ fr.raw1 = PayloadOf(258, 0)

\* C10: a packet shorter than header plus footer (23 bytes) never marks a
\* channel valid and never completes a frame.
C10_TruncatedDiscarded ==
    g_rx.on /\ Len(g_rx.pkt) < hdr_len + FooterLen =>
        /\ \A i \in 1..2 : fr.chs_valid[i] => g_rx.pre.chs_valid[i]
        /\ wpc # "put"

\* C11: for every packet add_packet accepts, the accumulator holds the values
\* of the fixed little-endian layout: frame id = bytes 1-2, state id = byte 5,
\* trigger-state id = byte 6, flags = byte 7, waveform id = bytes 8-11, and
\* the payload bytes[15 : len-8] sits in the slot chosen by bits 4-7 of
\* byte 4, the other slot's payload being left as it was.
C11_DecodedLayout ==
    RxMerged /\ fr.oid = g_rx.pre.oid =>
        LET p       == g_rx.pkt
            chan    == (p[5] \div 16) % 16
            payload == [i \in 1..Max(Len(p) - hdr_len - FooterLen, 0) |-> p[hdr_len + i]]
        IN  /\ fr.frameid = p[2] + 256 * p[3]
            /\ fr.stateid = p[6]
            /\ fr.trigstate = p[7]
            /\ fr.flags = p[8]
            /\ fr.waveformid = p[9] + 256 * p[10] + 65536 * p[11] + 16777216 * p[12]
            /\ IF chan = 0
               THEN fr.raw1 = payload /\ fr.raw2 = g_rx.pre.raw2
               ELSE fr.raw2 = payload /\ fr.raw1 = g_rx.pre.raw1

\* C11 witness: a whole channel-1 packet of frame id 258 (both bytes of the
\* id in use) was merged on top of channel 0 of that frame.
C11_Witness ==
    /\ RxMerged
    /\ fr.oid = g_rx.pre.oid
    /\ Len(g_rx.pkt) = FullLen
    /\ PktChan(g_rx.pkt) = 1
    /\ fr.frameid = 258
    /\ fr.waveformid = 16909060 + 258
    /\ fr.raw1 = PayloadOf(258, 0)
    /\ fr.raw2 = PayloadOf(258, 1)

\* C14: get_realtime_data(wait=False) returns the first frame it pops,
\* whatever its trigger-state id, without popping another: the step that
\* follows the pop is the return of that very frame, and it leaves the queue
\* alone.
C14_NoWaitReturnsFirstPop ==
    [][ \A c \in Consumers :
          (cpc[c] = "check" /\ ~cargs[c].wait /\ cpc'[c] # "check") =>
              /\ cpc'[c] = "returned"
              /\ Len(g_ret') = Len(g_ret) + 1
              /\ g_ret'[Len(g_ret')].c = c
              /\ g_ret'[Len(g_ret')].oid = cframe[c].oid
              /\ queue' = queue ]_vars

\* C14 witness: a wait=False call returned a frame whose trigger-state id is
\* not the instrument's state id.
C14_Witness ==
    \E i \in 1..Len(g_ret) : ~g_ret[i].wait /\ g_ret[i].trigstate # g_ret[i].sid

\* C12: a get_realtime_data(timeout=T, wait=True) call with T > 0 that ends
\* in FrameTimeout (only frames of another trigger state came) raises it no
\* later than T after the call began.
C12_TimeoutWithinT ==
    \A c \in Consumers :
        cpc[c] = "timeout" /\ ctime[c].wait /\ ctime[c].timeout > 0 =>
            ctime[c].done <= ctime[c].start + ctime[c].timeout

\* C13: while streaming, a call with a finite timeout during which no frame at
\* all is enqueued ends in FrameTimeout: it does not wait beyond its queue.get
\* timeout, it raises FrameTimeout when that wait runs out, and it does not
\* come back without a frame.
C13_NoFrameRaisesTimeout ==
    \A c \in Consumers :
        /\ cpc[c] = "get" /\ cargs[c].timeout # NoneVal => now <= ctime[c].getdl
        /\ ctime[c].streaming /\ ctime[c].pops = 0 /\ cpc[c] \in CallDone \ {"idle"} =>
              /\ cpc[c] = "timeout"
              /\ ctime[c].done = ctime[c].start + GetWait(ctime[c].timeout)

\* C13 witness: a call with timeout 2 made while streaming saw no frame and
\* raised FrameTimeout two ticks after it began.
C13_Witness ==
    \E c \in Consumers :
        /\ cpc[c] = "timeout"
        /\ ctime[c].streaming
        /\ ctime[c].pops = 0
        /\ ctime[c].timeout = 2
        /\ ctime[c].start > 0
        /\ ctime[c].done = ctime[c].start + 2

\* the realtime subscription socket of the frame worker is open
RealtimeOpen == wpc \in WorkerLoop \cup {"leak"}

\* the step is a get_data call being made
DataCallStep == gd'.calls = gd.calls + 1

\* the step neither stops nor starts a stream, consumes no frame, and leaves
\* pause and state id alone
NothingTouched ==
    /\ g_ev' = <<>>
    /\ UNCHANGED << dlopen, paused, stateid, queue, cpc, cframe, g_ret, running, wpc >>

\* C15 (as amended): get_data called on an instrument attached to a device
\* while staged settings are uncommitted raises UncommittedSettings before
\* any network or stream operation: no stream is stopped or started, no frame
\* is consumed and the pause state is not touched.
C15_UncommittedRaisesFirst ==
    [][ DataCallStep /\ deployed /\ dirty =>
            gd'.pc = "uncommitted" /\ NothingTouched ]_vars

\* C15 witness: the call was refused for uncommitted settings while frames
\* were streaming into the queue.
C15_Witness ==
    /\ gd.pc = "uncommitted"
    /\ deployed
    /\ dirty
    /\ running
    /\ queue # <<>>

\* C15 (original statement): get_data called while staged settings are
\* uncommitted raises UncommittedSettings, touching nothing.
C15_UncommittedRaises ==
    [][ DataCallStep /\ dirty => gd'.pc = "uncommitted" /\ NothingTouched ]_vars

\* C16: when get_data returns normally the device's pause state is what it
\* was before the call.
C16_PauseRestored ==
    [][ gd.pc # "returned" /\ gd'.pc = "returned" => paused' = gd'.pre_paused ]_vars

\* C16 witness: get_data returned on a device that was running: it paused
\* it, downloaded, and released the pause.
C16_Witness ==
    /\ gd.pc = "returned"
    /\ ~gd.pre_paused
    /\ ~paused
    /\ g_ev = << "stream_stop", "pause", "stream_start", "stream_stop", "unpause" >>

\* C17: if the download fails after get_data has paused the device, the prior
\* pause state is restored before the error reaches the caller.
C17_PauseRestoredOnError ==
    [][ gd.pc = "recv" /\ gd'.pc = "error" => paused' = gd'.pre_paused ]_vars

\* C18: the realtime subscription transport and the buffered-download
\* transport are never open at the same time.
C18_TransportsExclusive == ~(RealtimeOpen /\ dlopen)

\* C19: within a get_data call the download stream is open only while the
\* device is paused: pause (by get_data, or found) precedes _stream_start,
\* and _stream_stop of the started stream precedes un-pause.
C19_StreamOnlyWhilePaused ==
    /\ gd.pc \notin GdDone /\ dlopen => paused
    /\ \A i \in 1..Len(g_ev) :
          g_ev[i] = "stream_start" =>
              gd.was_paused \/ \E j \in 1..(i - 1) : g_ev[j] = "pause"
    /\ \A i \in 1..Len(g_ev) :
          g_ev[i] = "unpause" =>
              \E j \in 1..(i - 1), k \in 1..(i - 1) :
                  k < j /\ g_ev[k] = "stream_start" /\ g_ev[j] = "stream_stop"

\* C19 witness: the download stream is running on a device get_data paused.
C19_Witness ==
    /\ gd.pc = "recv"
    /\ dlopen
    /\ paused
    /\ ~gd.was_paused

\* C20: the object get_data returns carries the waveform id, state id and
\* trigger-state id of the realtime frame obtained at the start of the call,
\* whatever the state id has become through the call's commits.
C20_ResultCarriesSeedIds ==
    gd.pc = "returned" =>
        /\ Len(g_ret) > 0
        /\ gd.buff.waveformid = g_ret[Len(g_ret)].waveformid
        /\ gd.buff.stateid = g_ret[Len(g_ret)].stateid
        /\ gd.buff.trigstate = g_ret[Len(g_ret)].trigstate

\* C20 witness: get_data returned after its two commits; the result still
\* carries the seed frame's state ids, which are no longer the instrument's.
C20_Witness ==
    /\ gd.pc = "returned"
    /\ ~gd.was_paused
    /\ gd.buff.stateid = g_ret[Len(g_ret)].sid
    /\ gd.buff.stateid # stateid

\* C21: while the run flag stays true the frame worker never terminates:
\* whatever it receives and whatever fails while a packet is decoded or
\* post-processed, it stays inside its loop.
C21_WorkerSurvives ==
    [][ (wpc \in WorkerLoop /\ running /\ running') => (wpc' \in WorkerLoop) ]_vars

\* C22: when stop returns the worker thread has exited and has closed its
\* subscription socket; no exit path of the worker leaves the socket open.
C22_StopClosesSocket ==
    [][ (wpc' # "leak") /\ ((joining /\ ~joining') => (wpc' = "done")) ]_vars

\* C23: stop always terminates: once the run flag is false and the caller
\* waits in join, the worker exits and join returns, also with a full queue
\* nobody reads.
C23_StopTerminates == joining ~> (~joining /\ wpc \in WorkerExited)

\* C23 witness: the caller waits in join while the worker is about to enqueue
\* a frame into a full queue that has no reader.
C23_Witness ==
    /\ joining
    /\ ~running
    /\ wpc = "put"
    /\ Len(queue) = buflen
    /\ \A c \in Consumers : cpc[c] = "idle"

\* the step is a commit call: one by the caller, or the one get_data makes
\* after set_pause
CommitCalled ==
    \E e \in {"commit", "commit_clean", "pause", "unpause"} : g_ev' = Append(g_ev, e)

C25_NoFrameFromEarlierSession ==
    [][ \A c \in Consumers :
          (cpc[c] = "check" /\ cpc'[c] = "returned") => (cframe[c].oid > g_start) ]_vars

\* C26: after the worker has enqueued a completed frame it goes on with a
\* fresh, empty accumulator: its accumulator is never an object that is in
\* the queue or was returned to a consumer.
C26_FreshAccumulatorAfterPut ==
    [][ /\ (wpc = "put" /\ wpc' # "put") => (fr' = NewFrame(fr'.oid))
        /\ \A i \in 1..Len(queue') : queue'[i].oid # fr'.oid
        /\ \A i \in 1..Len(g_ret') : g_ret'[i].oid # fr'.oid ]_vars

\* C26 witness: with one frame returned to a consumer and another in the
\* queue, the worker has merged a later packet into its new accumulator.
C26_Witness ==
    /\ queue # <<>>
    /\ g_ret # <<>>
    /\ wpc = "loop"
    /\ fr.chs_valid[1]
    /\ ~fr.complete


\* C27: gen_modulate_off(ch=None) leaves both out1_modulation and out2_modulation 0;
\* with ch = 1 or ch = 2 it clears only that channel's modulation and leaves the other
\* channel's modulation as it was.
C27_ModulateOffChannels ==
    (wg.call.op = "gen_modulate_off" /\ ~wg.call.raised) =>
        /\ (wg.call.args.ch = NoneVal) =>
               (wg.attr[1].modulation = 0 /\ wg.attr[2].modulation = 0)
        /\ (wg.call.args.ch = 1) =>
               (wg.attr[1].modulation = 0 /\ wg.attr[2].modulation = wg.pre[2].modulation)
        /\ (wg.call.args.ch = 2) =>
               (wg.attr[2].modulation = 0 /\ wg.attr[1].modulation = wg.pre[1].modulation)

\* the methods of the generator that check their arguments
GenChecked == {"gen_sinewave", "gen_squarewave", "gen_rampwave", "gen_modulate"}

C29_SplitReassemble ==
    (rg.pc = "got" /\ rg.field \in Hand48) => (rg.dec = Unsigned(rg.raw))

\* a raw value with bits in all three of its 16-bit parts went through a high register
\* that was all ones
C29_Witness ==
    /\ rg.pc = "got"
    /\ rg.field = "out1_fallrate"
    /\ rg.raw = << 0, 65535, 32768, 1 >>
    /\ rg.old[1] = << 0, 0, 65535, 65535 >>
    /\ rg.regs = << << 0, 0, 65535, 65535 >>, << 0, 0, 32768, 1 >> >>

\* C30: reading lut_length1 or lut_length2 back after setting it returns the value that
\* was set, for every value of the 16-bit field, the values length - 1 staged by
\* _set_mode included.
C30_LutLengthReadBack ==
    (rg.pc = "got" /\ rg.field \in LutLength) =>
        (rg.dec = Unsigned(Word16(rg.length - 1)))

\* C31: add_packet writes and marks valid only the slot of the channel the packet
\* header names: a packet of channel index 2..15 leaves the second slot as it was and
\* does not make the accumulator complete.
C31_OnlyNamedChannelSlot ==
    (RxMerged /\ PktChan(g_rx.pkt) >= 2 /\ fr.oid = g_rx.pre.oid) =>
        (fr.raw2 = g_rx.pre.raw2 /\ ~fr.complete)

\* C32: _flush and the worker's put exclude one another: a frame is in the queue only
\* whole and only if it was put after the last flush, a flush leaves the queue empty,
\* and a get hands out only a frame put after the last flush.
C32_FlushAtomic ==
    [][ /\ \A i \in 1..Len(queue') :
              /\ queue'[i].oid \in Range(g_puts')
              /\ queue'[i].complete
              /\ queue'[i].raw1 # <<>>
              /\ queue'[i].raw2 # <<>>
        /\ (g_puts' = <<>>) => (queue' = <<>>)
        /\ \A c \in Consumers :
              (cpc[c] = "get" /\ cpc'[c] = "check") => (cframe'[c].oid \in Range(g_puts')) ]_vars

\* a frame was returned, the queue was flushed (the flush forgot that pop), and a frame
\* put after the flush is now in the reader's hands
C32_Witness ==
    /\ g_ret # <<>>
    /\ g_pops # <<>>
    /\ \A i \in 1..Len(g_pops) : g_pops[i][2] # g_ret[1].oid
    /\ \E c \in Consumers : cpc[c] = "check" /\ cframe[c].oid = g_puts[Len(g_puts)]

\* C33: when get_data's wait for the seed frame times out, the caller gets a timeout
\* exception, and the device's pause state is unchanged, no commit was made and the
\* download stream was never started.
C33_SeedTimeoutRaisesTimeout ==
    [][ (gd.pc = "rt" /\ gd'.pc \in GdDone) =>
            (/\ gd'.pc = "timeout"
             /\ paused' = gd'.pre_paused
             /\ stateid' = stateid
             /\ ~dlopen'
             /\ g_ev' = << "stream_stop" >>) ]_vars


\* C34: a get_realtime_data call that ends without raising has returned a frame:
\* no call ends by returning nothing, whether acquisition is running or not.
C34_ReturnsFrameOrRaises == \A c \in Consumers : cpc[c] # "nothing"


\* a packet stamped with the current state id completes a frame
CurrentFrameArrives == WorkerRecv(CurrentPackets(stateid), {TRUE}, FALSE) /\ fr'.complete

\* a packet stamped with another state id than the current one arrives
StaleArrives == \E t \in StateIds \ {stateid} : WorkerRecv(CurrentPackets(t), {TRUE}, FALSE)

\* thread c is inside get_realtime_data(wait=True) with no timeout
WaitingForCurrent(c) ==
    cpc[c] \in {"get", "check"} /\ cargs[c].wait /\ cargs[c].timeout = NoneVal

\* C35 (original statement): while streaming, if frames completed with the
\* current state id keep arriving and the stale ones come to an end, a
\* get_realtime_data(wait=True) call under way, whatever its timeout,
\* eventually returns a frame.
C35_AnyWaitEventuallyReturns ==
    ([]<><<CurrentFrameArrives>>_vars /\ <>[][~StaleArrives]_vars) =>
        \A c \in Callers :
            (cpc[c] \in {"get", "check"} /\ cargs[c].wait) ~> (cpc[c] = "returned")

\* C35: while streaming, if frames completed with the current state id keep
\* arriving and the stale ones come to an end (however many there were), a
\* get_realtime_data(wait=True, timeout=None) call under way eventually returns
\* a frame, for every queue length.
C35_WaitEventuallyReturns ==
    ([]<><<CurrentFrameArrives>>_vars /\ <>[][~StaleArrives]_vars) =>
        \A c \in Callers : WaitingForCurrent(c) ~> (cpc[c] = "returned")

\* a waiting call has popped a stale frame while the longest queue is full of current ones
C35_Witness ==
    \E c \in Callers :
        /\ WaitingForCurrent(c)
        /\ cpc[c] = "check"
        /\ cframe[c].trigstate # stateid
        /\ buflen = MaxBuflen
        /\ Len(queue) = buflen
        /\ \A i \in 1..Len(queue) : queue[i].trigstate = stateid


\* C36: a get_realtime_data(timeout=None) call waiting on an empty queue when
\* acquisition is stopped eventually comes to an end, by returning or raising.
C36_BlockedCallEndsAfterStop ==
    \A c \in Callers :
        (cpc[c] = "get" /\ cargs[c].timeout = NoneVal /\ queue = <<>> /\ ~running)
            ~> (cpc[c] \in CallDone)


\* C37: at most one frame worker is alive.  A worker thread begins only in a
\* step that takes acquisition from not running to running, and then no
\* earlier worker is inside its loop any more; while acquisition stays running
\* or stays stopped no thread is started, whether or not the worker is alive.
C37_OneWorkerAtATime ==
    [][ /\ (~running /\ running') => (wpc \notin WorkerLoop)
        /\ (wpc \notin WorkerLoop /\ wpc' \in WorkerLoop) => (~running /\ running')
        /\ (running = running' /\ wpc \in WorkerExited) => (wpc' = wpc) ]_vars

\* a worker started after a stop is in its loop (nothing was ever enqueued, so
\* its accumulator is the second made by a start)
C37_Witness == wpc \in WorkerLoop /\ running /\ queue = <<>> /\ fr.oid >= 2


\* C38: every BodeData frame on its way to a consumer (handed to the put, in the
\* queue, popped, returned) has a state id that scaling data was recorded for;
\* a frame completed for a state id without an entry in scales, also between
\* the register commit and the recording, is not enqueued.
C38_DeliveredFramesHaveScales ==
    /\ (wpc = "put") => (fr.stateid \in scales)
    /\ \A i \in 1..Len(queue) : queue[i].stateid \in scales
    /\ \A c \in Consumers : (cpc[c] = "check") => (cframe[c].stateid \in scales)
    /\ \A i \in 1..Len(g_ret) : g_ret[i].stateid \in scales

\* the packet that makes a frame of the new state id whole has arrived between
\* the register commit and the recording of the scales, and the frame was vetoed
C38_Witness ==
    /\ RxMerged
    /\ BodeCommitting
    /\ PktStateId(g_rx.pkt) = stateid
    /\ add_packet(g_rx.pre, g_rx.pkt, TRUE).complete
    /\ ~fr.complete
    /\ wpc = "loop"


(***************************************************************************)
(* ArbWaveGen: the phase registers gen_waveform stages for a channel.      *)
(* Phase values are in units of _ARB_LUT_INTERPLOATION_LENGTH / 360, so    *)
(* (phase / 360) * phase_modulo is the integer phase * (modulo in units of *)
(* the interpolation length).                                              *)
(***************************************************************************)
\* table lengths handed to _set_mode, phases in degrees and dead times in cycles
ArbLengths == {1, 1024}

ArbPhases == {90, 360}

ArbDeadTimes == {0, 2}

\* no gen_waveform call was made for the channel
NoArbCall == [phase |-> NoneVal, dead_time |-> NoneVal, mode |-> NoneVal, lut_length |-> NoneVal]

\* an ArbWaveGen after set_defaults: mode and table length per channel, what
\* gen_waveform staged, what the device was sent, and per channel the arguments
\* and the mode and table length of its last gen_waveform call
NoArb ==
    [op |-> "arb",
     mode |-> << 0, 0 >>, lut_length |-> << 0, 0 >>,
     phase_modulo |-> << 0, 0 >>, phase_offset |-> << 0, 0 >>,
     dev |-> << 0, 0 >>,
     call |-> << NoArbCall, NoArbCall >>]

\* lines 216 and 230: phase_modulo = phase_modulo * dead_time if dead_time > 0 else phase_modulo
arb_phase_modulo(lut_length, dead_time) ==
    IF dead_time > 0 THEN (lut_length + 1) * dead_time ELSE lut_length + 1

\* line 219: self.phase_offset1 = (phase / 360) * phase_modulo if dead_time == 0 else 0
\* line 233: self.phase_offset2 = (phase / 360) * phase_modulo if dead_time > 0 else 0
arb_phase_offset(ch, phase, phase_modulo, dead_time) ==
    IF ch = 1
    THEN IF dead_time = 0 THEN phase * phase_modulo ELSE 0
    ELSE IF dead_time > 0 THEN phase * phase_modulo ELSE 0

arbframe == << queue, ctlvars, wrkvars, convars, g_puts, g_evicted, timevars,
               deployed, scales, dirty, paused, dlopen, gd, g_ev, rg >>

\* _set_mode(ch, mode, length), lines 100-118, with arguments in range
ArbSetMode ==
    /\ \E ch \in Channels, mode \in ArbModes, length \in ArbLengths :
         /\ length <= MaxLutLength(mode)
         /\ wg' = [wg EXCEPT !.mode[ch] = mode, !.lut_length[ch] = length - 1]
    /\ UNCHANGED arbframe

\* gen_waveform(ch, ..., phase, dead_time, ...), lines 211-237, with arguments in
\* range; @needs_commit then sends the staged values
ArbGenWaveform ==
    /\ \E ch \in Channels, phase \in ArbPhases, dead_time \in ArbDeadTimes :
         LET pm == arb_phase_modulo(wg.lut_length[ch], dead_time)
             po == arb_phase_offset(ch, phase, pm, dead_time)
             staged == [wg.phase_offset EXCEPT ![ch] = po]
         IN  wg' = [wg EXCEPT !.phase_modulo[ch] = pm,
                              !.phase_offset = staged,
                              !.dev = staged,
                              !.call[ch] = [phase |-> phase, dead_time |-> dead_time,
                                            mode |-> wg.mode[ch],
                                            lut_length |-> wg.lut_length[ch]]]
    /\ UNCHANGED arbframe

NextArb ==
    \/ ArbSetMode
    \/ ArbGenWaveform

\* an arbitrary waveform generator attached to its device
InitArb == InitWith(Callers) /\ deployed = TRUE /\ wg = NoArb /\ rg = NoReg

SpecArb == InitArb /\ [][NextArb]_vars

\* C39: when gen_waveform was last called for both channels with the same
\* arguments, the same mode and the same table length, the phase offsets staged
\* for the two channels are equal, with dead time and without.
C39_ChannelsStagedAlike ==
    (wg.call[1] # NoArbCall /\ wg.call[1] = wg.call[2]) =>
        (wg.phase_offset[1] = wg.phase_offset[2])


(***************************************************************************)
(* Fields that share a register: out<n>_offset lives in the low half of    *)
(* REG_SG_MODF<n>_H, whose high half belongs to mod<n>_frequency, and      *)
(* out<n>_riserate takes its bits 32-47 from the low half of               *)
(* REG_SG_RFRATE<n>_H, whose high half belongs to out<n>_fallrate.         *)
(***************************************************************************)
\* from_reg_unsigned(0, 48) over (high, low): the registers are joined, high
\* first, into one 64-bit value and the low 48 bits taken
FromRegUnsigned48(high, low) == << 0, high[4], low[3], low[4] >>

\* the field that shares the high register of a hand-encoded field
Neighbour(field) ==
    IF field = "mod1_frequency" THEN "out1_offset"
    ELSE IF field = "mod2_frequency" THEN "out2_offset"
    ELSE IF field = "out1_fallrate" THEN "out1_riserate"
    ELSE "out2_riserate"

\* the neighbour's decoder (before its scaling by a constant) on the shared
\* register and, for the rise rate, its own low register
NeighbourDecode(field, high, low) ==
    IF Neighbour(field) \in {"out1_offset", "out2_offset"}
    THEN FromRegSigned16(high)
    ELSE Unsigned(FromRegUnsigned48(high, low))

\* prior contents of a shared high register, and of the neighbour's low register
SharedHigh == { << 0, 0, a, b >> : a \in {0, 65535}, b \in LimbValues }

NeighbourLow == { << 0, 0, a, a >> : a \in {0, 32768} }

\* a hand-encoded field, the value about to be set, the prior content of its
\* registers, the neighbour's own low register (nlow) and the neighbour's value
\* as read before the set (pre)
ShareInputs ==
    { [pc |-> "in", field |-> f, raw |-> r, mode |-> 0, length |-> 0,
       old |-> << o, WZero >>, regs |-> << o, WZero >>, nlow |-> n,
       pre |-> NeighbourDecode(f, o, n), dec |-> Unsigned(WZero)] :
         f \in Hand48, r \in Raw48, o \in SharedHigh, n \in NeighbourLow }

InitShare == InitWith(Callers) /\ deployed = TRUE /\ wg = Unbuilt /\ rg \in ShareInputs

\* the neighbour field is read after the set: its decoder on the staged registers
NeighbourGet ==
    /\ rg.pc = "set"
    /\ rg' = [rg EXCEPT !.pc = "got",
                        !.dec = NeighbourDecode(rg.field, rg.regs[1], rg.nlow)]
    /\ UNCHANGED regframe

NextShare ==
    \/ FieldSet
    \/ NeighbourGet

SpecShare == InitShare /\ [][NextShare]_vars

\* C40: after mod<n>_frequency was set, out<n>_offset reads as it did before,
\* and after out<n>_fallrate was set, out<n>_riserate reads as it did before,
\* whatever the registers held.
C40_NeighbourUndisturbed == (rg.pc = "got") => (rg.dec = rg.pre)

\* a value with all 48 bits set was written over a high register whose low half
\* held 0x8000, and the neighbour field was read back afterwards
C40_Witness ==
    /\ rg.pc = "got"
    /\ rg.raw = << 0, 65535, 65535, 65535 >>
    /\ rg.old[1] = << 0, 0, 0, 32768 >>
    /\ rg.regs[1] = << 0, 0, 65535, 32768 >>
    /\ rg.dec # Unsigned(WZero)

====
